---- MODULE Spec2Model ----
(***************************************************************************)
(* Model of gocaveman/tmeta: the tmetadbr Builder (statement construction  *)
(* for join-table reconciliation and optimistic-lock updates), the result  *)
(* helpers, and the SQL tables those statements are executed against.      *)
(*                                                                         *)
(* Go values are modelled as follows.                                      *)
(*   - a slice is [isNil, elems]; len(nil slice) = len(empty slice) = 0    *)
(*   - an interface{} holding a number is [kind, val]; the nil interface   *)
(*     is NilValue                                                         *)
(*   - a (stmt, err) return is [stmt, err, panicked]; a Go panic is an     *)
(*     outcome of its own (panicked = TRUE), distinct from an error        *)
(*   - a table is a set of rows, a row is a record keyed by column name    *)
(***************************************************************************)
EXTENDS Integers, Sequences, FiniteSets, TLC

VARIABLES
    join,       \* rows of the join table test_book_category, PRIMARY KEY(book_id, category_id)
    dialect,    \* the Dialect field of the Builder's Session
    rec,        \* per caller: the record it holds (Go type, BookID, CategoryIDList)
    relName,    \* per caller: the relation name it passes to the Builder
    pc,         \* per caller: position in the synchronisation code
    base,       \* per caller: join table content when the current reconciliation started
    prev,       \* per caller: join table content after its previous complete reconciliation
    want,       \* per caller: the desired list of its last complete reconciliation
    runs,       \* per caller: complete reconciliations executed with the current list
    issued,     \* per caller: statements handed to the database in the current reconciliation
    lastErr,    \* per caller: error of the last builder / ExecOK call ("" is nil)
    lastUnit,   \* the caller whose all-or-nothing unit committed last (0: none yet)
    tbl,        \* rows of the table of the entity being updated (test_publisher / test_author)
    entity,     \* the Go type of that entity and the Go kind of its Version field
    urec,       \* per caller: the record it read from tbl and edits
    upc,        \* per caller: position in the read / edit / update code
    ures,       \* per caller: outcome of b.ResultWithOneUpdate(b.MustUpdateByID(&rec).Exec()):
                \* RowsAffected, the error, whether the call panicked, how rec was passed
    meta,       \* Meta.tableInfoMap: struct type -> descriptor
    mprev,      \* tableInfoMap as it was before the last operation on the registry
    mop,        \* the last operation on the registry, its arguments and its outcome: the error
                \* returned, whether it panicked, whether a lookup returned nil
    renames,    \* number of ReplaceSQLNames calls so far
    call,       \* the last Builder call: the method, the registry of the Builder's Meta,
                \* the record, whether it is passed as a pointer, the relation name
    out,        \* what that call returned: statement and error, or that it panicked
    acc,        \* the last call of an accessor of a descriptor: the method, the struct type,
                \* the descriptor, the arguments and what it returned
    lastIns,    \* the caller whose insert statement was executed last (0: none yet)
    store,      \* the rows of the entity tables, by table name
    sel,        \* the last relation select: the record, the relation, the statement built
                \* and the rows the database returned for it
    obj,        \* a record whose relation fields are read and written: Go field -> value
    hnd,        \* the handle RelationTargetPtr returned for obj
    hop,        \* the last operation on obj or through hnd
    cache,      \* sqlFieldIndexCache: (type, storage name) -> index path
    rdlock,     \* the callers holding sqlFieldIndexCacheMU for reading
    wrlock,     \* the caller holding sqlFieldIndexCacheMU for writing (0: none)
    ipc,        \* per caller: position in sqlFieldIndex
    iarg,       \* per caller: the arguments of its call of sqlFieldIndex
    iret        \* per caller: its local variables ret and ok, and what the call returned

joinVars == <<join, dialect, rec, relName, pc, base, prev, want, runs, issued, lastErr, lastUnit>>
updVars == <<tbl, entity, urec, upc, ures>>
regVars == <<meta, mprev, mop, renames>>
bldVars == <<call, out>>
accVars == <<acc>>
raceVars == <<lastIns>>
relVars == <<store, sel>>
ptrVars == <<obj, hnd, hop>>
idxVars == <<cache, rdlock, wrlock, ipc, iarg, iret>>

otherVars == <<accVars, raceVars, relVars, ptrVars, idxVars>>

vars == <<joinVars, updVars, regVars, bldVars, otherVars>>

----------------------------------------------------------------------------
(* Bounds *)

MaxLen == 2          \* longest desired id list (CategoryIDList)
MaxRuns == 2         \* repetitions of a reconciliation with an unchanged list
MaxVersion == 1      \* largest version number a stored row starts with or is inserted with

(* Program data: the rows and callers of the test scenario *)

Callers == {1, 2}
BookIDs == {"book_0001", "book_0002"}
CategoryIDs == {"category_0001", "category_0002", "category_0003"}
RowIDs == {"id_0001", "id_0002"}
RowNames == {"first name", "second name"}

Range(s) == {s[i] : i \in DOMAIN s}

SeqsUpTo(S, n) == UNION {[1..k -> S] : k \in 0..n}

\* all orderings of a finite set, as sequences without repetition
Orderings(S) == {f \in [1..Cardinality(S) -> S] : Range(f) = S}

\* interface{}(nil)
NilValue == "<nil>"

\* a Go slice value: a nil slice and an empty slice both have length 0
Slice(isNil, elems) == [isNil |-> isNil, elems |-> elems]
NilSlice == Slice(TRUE, <<>>)
SliceLen(s) == Len(s.elems)
Slices == {NilSlice} \cup {Slice(FALSE, e) : e \in SeqsUpTo(CategoryIDs, MaxLen)}

----------------------------------------------------------------------------
(* The registry built by doSetup: Parse of the test types, then            *)
(* ReplaceSQLNames with the "test_" prefix.                                *)

Rel(kind, name, goValueField, joinName, sqlIDField, sqlOtherIDField) ==
    [kind |-> kind, Name |-> name, GoValueField |-> goValueField, JoinName |-> joinName,
     SQLIDField |-> sqlIDField, SQLOtherIDField |-> sqlOtherIDField]

NoRelations == [n \in {} |-> Rel("", "", "", "", "", "")]

TableInfo(name, sqlName, sqlPKFields, pkAutoIncr, sqlVersionField, relations) ==
    [name |-> name, sqlName |-> sqlName, sqlPKFields |-> sqlPKFields,
     pkAutoIncr |-> pkAutoIncr, sqlVersionField |-> sqlVersionField,
     RelationMap |-> relations]

BookRelations ==
    [n \in {"author", "publisher", "category_list", "category_id_list"} |->
        CASE n = "author" -> Rel("BelongsTo", n, "Author", "", "author_id", "")
          [] n = "publisher" -> Rel("BelongsTo", n, "Publisher", "", "publisher_id", "")
          [] n = "category_list" ->
                Rel("BelongsToMany", n, "CategoryList", "book_category", "book_id", "category_id")
          [] n = "category_id_list" ->
                Rel("BelongsToManyIDs", n, "CategoryIDList", "book_category", "book_id", "category_id")]

BookListRelation(owner) ==
    [n \in {"book_list"} |-> Rel("HasMany", n, "BookList", "", "", owner \o "_id")]

CategoryRelations ==
    [n \in {"book_list", "category_info"} |->
        CASE n = "book_list" ->
                Rel("BelongsToMany", n, "BookList", "book_category", "category_id", "book_id")
          [] n = "category_info" -> Rel("HasOne", n, "CategoryInfo", "", "", "category_id")]

CategoryInfoRelations ==
    [n \in {"category"} |-> Rel("BelongsTo", n, "Category", "", "category_id", "")]

TestMeta ==
    [t \in {"Author", "Publisher", "Book", "BookCategory", "Category", "CategoryInfo"} |->
        CASE t = "Author" ->
                TableInfo("author", "test_author", <<"author_id">>, FALSE, "",
                          BookListRelation("author"))
          [] t = "Publisher" ->
                TableInfo("publisher", "test_publisher", <<"publisher_id">>, FALSE, "version",
                          BookListRelation("publisher"))
          [] t = "Book" -> TableInfo("book", "test_book", <<"book_id">>, FALSE, "", BookRelations)
          [] t = "BookCategory" ->
                TableInfo("book_category", "test_book_category", <<"book_id", "category_id">>,
                          FALSE, "", NoRelations)
          [] t = "Category" ->
                TableInfo("category", "test_category", <<"category_id">>, FALSE, "",
                          CategoryRelations)
          [] t = "CategoryInfo" ->
                TableInfo("category_info", "test_category_info", <<"category_info_id">>, TRUE,
                          "", CategoryInfoRelations)]

\* Meta.For / Meta.ForType: a map lookup, nil for a type that is not registered
HasType(m, t) == t \in DOMAIN m
ForType(m, t) == m[t]

\* Meta.typeForName / Meta.ForName: the registered type with that logical name
HasName(m, name) == \E t \in DOMAIN m : m[t].name = name
ForName(m, name) == m[CHOOSE t \in DOMAIN m : m[t].name = name]

\* RelationMap.RelationNamed: a map lookup, nil for an unknown name
HasRelation(ti, n) == n \in DOMAIN ti.RelationMap
RelationNamed(ti, n) == ti.RelationMap[n]

\* sqlFieldValue: the record's value of the field tagged db:"<name>", nil if there is none
sqlFieldValue(o, sqlFieldName) ==
    IF sqlFieldName \in DOMAIN o THEN o[sqlFieldName] ELSE NilValue

\* TableInfo.PKValues: the record's key values, in the order of sqlPKFields
PKValues(ti, o) == [i \in DOMAIN ti.sqlPKFields |-> sqlFieldValue(o, ti.sqlPKFields[i])]

\* the db:"..." tags of the struct's exported fields, in declaration order
DBFields(goType) ==
    CASE goType = "Author" -> <<"author_id", "nom_de_plume">>
      [] goType = "Publisher" -> <<"publisher_id", "company_name", "version">>
      [] goType = "Book" -> <<"book_id", "author_id", "publisher_id", "title">>
      [] goType = "BookCategory" -> <<"book_id", "category_id">>
      [] goType = "Category" -> <<"category_id", "name">>
      [] goType = "CategoryInfo" -> <<"category_info_id", "category_id", "info_stuff">>
      [] OTHER -> <<>>

\* TableInfo.IsSQLPKField
IsSQLPKField(ti, sqlName) == sqlName \in Range(ti.sqlPKFields)

\* an interface{} value: the Go kind of the dynamic type and the value; nil has kind "nil"
Iface(kind, val) == [kind |-> kind, val |-> val]
NilIface == Iface("nil", 0)

\* v.FieldByIndex(idx).Interface(): the Version field has the kind the struct declares
\* (carried by the record), the other mapped fields of the test types are strings
FieldIface(o, col) ==
    IF col = "version" THEN Iface(o.verKind, o.version) ELSE Iface("string", o[col])

\* TableInfo.SQLValueMap: [SQLField] -> value for the mapped fields, keys omitted
\* unless includePks
SQLValueMap(ti, o, includePks) ==
    [col \in {f \in Range(DBFields(o.goType)) : ~IsSQLPKField(ti, f) \/ includePks} |->
        FieldIface(o, col)]

----------------------------------------------------------------------------
(* Statements and builder results *)

\* one Where() condition: <col> = ? or <col> NOT IN ?, with its bound values
Cond(col, op, args) == [col |-> col, op |-> op, args |-> args]

Stmt(kind, idiom, table, cols, where, args) ==
    [kind |-> kind, idiom |-> idiom, table |-> table, cols |-> cols,
     where |-> where, args |-> args]

\* a nil *dbr.InsertStmt / *dbr.DeleteStmt (a typed nil pointer once stored in an Execer)
NoStmt == Stmt("nil", "", "", <<>>, <<>>, <<>>)
\* the nil Execer interface
NilExecer == Stmt("nilinterface", "", "", <<>>, <<>>, <<>>)

\* the (stmt, err) pair a Builder method returns; panicked: the call did not return
Ret(stmt, err) == [stmt |-> stmt, err |-> err, panicked |-> FALSE]
Panic(msg) == [stmt |-> NoStmt, err |-> msg, panicked |-> TRUE]

ErrTypeNotRegistered == "tmetadbr: type not registered"
ErrRelationNotFound == "relation not found"
ErrUnsupportedRelation == "unsupported relation type"
ErrUnknownDialect == "unknown dialect"
NilDeref == "invalid memory address or nil pointer dereference"

Dialects == {"sqlite3", "mysql", "postgres", "mssql"}

\* DeleteRelationNotIn without the own-id condition: links of every record are deleted
DeleteRelationNotInAnyOwner(m, o, relationName) ==
    IF ~HasType(m, o.goType) THEN Ret(NoStmt, ErrTypeNotRegistered)
    ELSE LET ti == ForType(m, o.goType) IN
    IF ~HasRelation(ti, relationName) THEN Ret(NoStmt, ErrRelationNotFound)
    ELSE LET relv == RelationNamed(ti, relationName) IN
    IF relv.kind # "BelongsToManyIDs" THEN Ret(NoStmt, ErrUnsupportedRelation)
    ELSE IF ~HasName(m, relv.JoinName) THEN Panic(NilDeref)
    ELSE Ret(Stmt("delete", "DELETE FROM", ForName(m, relv.JoinName).sqlName, <<>>,
                  <<Cond(relv.SQLOtherIDField, "NOT IN", o[relv.GoValueField].elems)>>, <<>>),
             "")

\* DeleteRelationNotIn without the NOT IN condition: every link of the record is deleted
DeleteRelationAll(m, o, relationName) ==
    IF ~HasType(m, o.goType) THEN Ret(NoStmt, ErrTypeNotRegistered)
    ELSE LET ti == ForType(m, o.goType) IN
    IF ~HasRelation(ti, relationName) THEN Ret(NoStmt, ErrRelationNotFound)
    ELSE LET relv == RelationNamed(ti, relationName) IN
    IF relv.kind # "BelongsToManyIDs" THEN Ret(NoStmt, ErrUnsupportedRelation)
    ELSE IF ~HasName(m, relv.JoinName) THEN Panic(NilDeref)
    ELSE Ret(Stmt("delete", "DELETE FROM", ForName(m, relv.JoinName).sqlName, <<>>,
                  <<Cond(relv.SQLIDField, "=", <<PKValues(ti, o)[1]>>)>>, <<>>),
             "")

\* Builder.DeleteRelationNotIn
DeleteRelationNotIn(m, o, relationName) ==
    IF ~HasType(m, o.goType) THEN Ret(NoStmt, ErrTypeNotRegistered)
    ELSE LET ti == ForType(m, o.goType) IN
    IF ~HasRelation(ti, relationName) THEN Ret(NoStmt, ErrRelationNotFound)
    ELSE LET relv == RelationNamed(ti, relationName) IN
    IF relv.kind # "BelongsToManyIDs" THEN Ret(NoStmt, ErrUnsupportedRelation)
    ELSE IF ~HasName(m, relv.JoinName) THEN Panic(NilDeref)
    ELSE LET sliceV == o[relv.GoValueField]
             joinTI == ForName(m, relv.JoinName)
             own    == Cond(relv.SQLIDField, "=", <<PKValues(ti, o)[1]>>)
             notIn  == Cond(relv.SQLOtherIDField, "NOT IN", sliceV.elems)
         IN  Ret(Stmt("delete", "DELETE FROM", joinTI.sqlName, <<>>,
                      IF SliceLen(sliceV) > 0 THEN <<own, notIn>> ELSE <<own>>, <<>>),
                 "")

\* the loop appending the element before thisID
PairArgsSwapped(thisID, ids) ==
    [i \in 1..(2 * Len(ids)) |-> IF i % 2 = 1 THEN ids[(i + 1) \div 2] ELSE thisID]

\* the (?,?) groups' arguments: thisID, ids[1], thisID, ids[2], ...
PairArgs(thisID, ids) ==
    [i \in 1..(2 * Len(ids)) |-> IF i % 2 = 1 THEN thisID ELSE ids[i \div 2]]

\* the SQLite3 case written without OR IGNORE
InsertIdiomPlainSQLite(d) ==
    CASE d = "sqlite3" -> "INSERT INTO"
      [] d = "mysql" -> "INSERT IGNORE INTO"
      [] d = "postgres" -> "INSERT INTO ... ON CONFLICT DO NOTHING"
      [] OTHER -> ""

\* the dialect switch of InsertRelationIgnore: the statement text around the VALUES list
InsertIdiom(d) ==
    CASE d = "sqlite3" -> "INSERT OR IGNORE INTO"
      [] d = "mysql" -> "INSERT IGNORE INTO"
      [] d = "postgres" -> "INSERT INTO ... ON CONFLICT DO NOTHING"
      [] OTHER -> ""

\* a faulty variant: the relation's type is not looked at when the list is empty
InsertRelationIgnoreEmptyFirst(m, d, o, relationName) ==
    IF ~HasType(m, o.goType) THEN Ret(NoStmt, ErrTypeNotRegistered)
    ELSE LET ti == ForType(m, o.goType) IN
    IF ~HasRelation(ti, relationName) THEN Ret(NoStmt, ErrRelationNotFound)
    ELSE LET relv == RelationNamed(ti, relationName) IN
    IF SliceLen(o.CategoryIDList) = 0 THEN Ret(NoStmt, "")
    ELSE IF relv.kind # "BelongsToManyIDs" THEN Ret(NoStmt, ErrUnsupportedRelation)
    ELSE IF InsertIdiom(d) = "" THEN Ret(NoStmt, ErrUnknownDialect)
    ELSE IF ~HasName(m, relv.JoinName) THEN Panic(NilDeref)
    ELSE Ret(Stmt("insert", InsertIdiom(d), ForName(m, relv.JoinName).sqlName,
                  <<relv.SQLIDField, relv.SQLOtherIDField>>, <<>>,
                  PairArgs(PKValues(ti, o)[1], o.CategoryIDList.elems)),
             "")

\* Builder.InsertRelationIgnore
InsertRelationIgnore(m, d, o, relationName) ==
    IF ~HasType(m, o.goType) THEN Ret(NoStmt, ErrTypeNotRegistered)
    ELSE LET ti == ForType(m, o.goType) IN
    IF ~HasRelation(ti, relationName) THEN Ret(NoStmt, ErrRelationNotFound)
    ELSE LET relv == RelationNamed(ti, relationName) IN
    IF relv.kind # "BelongsToManyIDs" THEN Ret(NoStmt, ErrUnsupportedRelation)
    ELSE IF ~HasName(m, relv.JoinName) THEN Panic(NilDeref)
    ELSE LET thisID == PKValues(ti, o)[1]
             sliceV == o[relv.GoValueField]
         IN
    IF SliceLen(sliceV) = 0 THEN Ret(NoStmt, "")
    ELSE IF InsertIdiom(d) = "" THEN Ret(NoStmt, ErrUnknownDialect)
    ELSE Ret(Stmt("insert", InsertIdiom(d), ForName(m, relv.JoinName).sqlName,
                  <<relv.SQLIDField, relv.SQLOtherIDField>>, <<>>,
                  PairArgs(thisID, sliceV.elems)),
             "")

\* SelectRelationPtr selecting the own-id column of the join table
SelectRelationOwnIDs(m, o, relationName) ==
    IF ~HasType(m, o.goType) THEN Ret(NoStmt, ErrTypeNotRegistered)
    ELSE LET ti == ForType(m, o.goType) IN
    IF ~HasRelation(ti, relationName) THEN Ret(NoStmt, ErrRelationNotFound)
    ELSE LET r == RelationNamed(ti, relationName) IN
    IF r.kind # "BelongsToManyIDs" THEN Ret(NoStmt, ErrUnsupportedRelation)
    ELSE IF ~HasName(m, r.JoinName) THEN Panic(NilDeref)
    ELSE Ret(Stmt("select", "SELECT", ForName(m, r.JoinName).sqlName, <<r.SQLIDField>>,
                  <<Cond(r.SQLIDField, "=", <<PKValues(ti, o)[1]>>)>>, <<>>),
             "")

\* Builder.SelectRelationPtr, the BelongsToManyIDs case
SelectRelationIDs(m, o, relationName) ==
    IF ~HasType(m, o.goType) THEN Ret(NoStmt, ErrTypeNotRegistered)
    ELSE LET ti == ForType(m, o.goType) IN
    IF ~HasRelation(ti, relationName) THEN Ret(NoStmt, ErrRelationNotFound)
    ELSE LET r == RelationNamed(ti, relationName) IN
    IF r.kind # "BelongsToManyIDs" THEN Ret(NoStmt, ErrUnsupportedRelation)
    ELSE IF ~HasName(m, r.JoinName) THEN Panic(NilDeref)
    ELSE Ret(Stmt("select", "SELECT", ForName(m, r.JoinName).sqlName, <<r.SQLOtherIDField>>,
                  <<Cond(r.SQLIDField, "=", <<PKValues(ti, o)[1]>>)>>, <<>>),
             "")

----------------------------------------------------------------------------
(* Insert, SelectByID, UpdateByID, DeleteByID and the result helpers *)

ErrUpdateFailed == "tmetadbr: update failed (not found or version conflict)"
ErrNotSupportedInteger == "is not a supported integer type"
ErrUnaddressable == "reflect.Value.Addr of unaddressable value"
ErrSetUnaddressable == "reflect: reflect.Value.Set using unaddressable value"
ErrZeroValueType == "reflect: call of reflect.Value.Type on zero Value"

\* the kinds named by the switch of incrementInteger, and Version field kinds it lacks
SupportedKinds == {"int", "uint", "int32", "uint32", "int64", "uint64"}
OtherKinds == {"int16", "string"}

\* col = ? with its bound interface{} value
CondV(col, arg) == [col |-> col, arg |-> arg]

\* a *dbr.UpdateStmt / *dbr.DeleteStmt / *dbr.SelectStmt / *dbr.InsertStmt on one of
\* the entity tables: SetMap / Columns+Record values in set, Where conditions in where
RowStmt(kind, table, set, where) == [kind |-> kind, table |-> table, set |-> set, where |-> where]
NoValues == [col \in {} |-> NilIface]
NoRowStmt == RowStmt("nil", "", NoValues, <<>>)

\* incrementInteger: reflect.ValueOf(v) of an interface value is not addressable, so
\* vv.Set panics in each case of the switch; for a kind the switch does not name,
\* control reaches the final return, which is the error; a nil value has no Type()
incrementInteger(v) ==
    IF v.kind = "nil" THEN [val |-> NilIface, err |-> ErrZeroValueType, panicked |-> TRUE]
    ELSE IF v.kind \in SupportedKinds
    THEN [val |-> NilIface, err |-> ErrSetUnaddressable, panicked |-> TRUE]
    ELSE [val |-> NilIface, err |-> ErrNotSupportedInteger, panicked |-> FALSE]

\* TableInfo.SQLPKWhere with TableInfo.PKValues: k1 = ? AND k2 = ? ..., in key order
PKWhere(ti, ids) == [i \in DOMAIN ti.sqlPKFields |-> CondV(ti.sqlPKFields[i], ids[i])]
PKIfaces(ti, o) == [i \in DOMAIN ti.sqlPKFields |-> Iface("string", PKValues(ti, o)[i])]

\* Builder.UpdateByID. byPtr: the record is passed as a pointer. The curVer assigned
\* inside the version block is a new variable (:=) of that block; the curVer bound
\* to "version = ?" is the outer one, which is still nil.
UpdateByID(m, o, byPtr) ==
    IF ~HasType(m, o.goType) THEN Ret(NoRowStmt, ErrTypeNotRegistered)
    ELSE IF ~byPtr THEN Panic(ErrUnaddressable)
    ELSE LET ti   == ForType(m, o.goType)
             vmap == SQLValueMap(ti, o, FALSE)
             vf   == ti.sqlVersionField
             inc  == incrementInteger(IF vf \in DOMAIN vmap THEN vmap[vf] ELSE NilIface)
             curVer == NilIface
         IN  IF vf = ""
             THEN Ret(RowStmt("update", ti.sqlName, vmap, PKWhere(ti, PKIfaces(ti, o))), "")
             ELSE IF inc.panicked THEN Panic(inc.err)
             ELSE IF inc.err # "" THEN Ret(NoRowStmt, inc.err)
             ELSE Ret(RowStmt("update", ti.sqlName, [vmap EXCEPT ![vf] = inc.val],
                              PKWhere(ti, PKIfaces(ti, o)) \o <<CondV(vf, curVer)>>), "")

\* Builder.Insert of one record: every mapped column unless the key is auto-generated
Insert(m, o) ==
    IF ~HasType(m, o.goType) THEN Ret(NoRowStmt, ErrTypeNotRegistered)
    ELSE LET ti == ForType(m, o.goType)
         IN  Ret(RowStmt("insert", ti.sqlName, SQLValueMap(ti, o, ~ti.pkAutoIncr), <<>>), "")

\* Builder.SelectByID called with explicit ids
SelectByID(m, o, ids) ==
    IF ~HasType(m, o.goType) THEN Ret(NoRowStmt, ErrTypeNotRegistered)
    ELSE LET ti == ForType(m, o.goType)
         IN  Ret(RowStmt("select", ti.sqlName, NoValues, PKWhere(ti, ids)), "")

\* Builder.DeleteByID called with explicit ids (len(ids) > 0: no version condition)
DeleteByID(m, o, ids) ==
    IF ~HasType(m, o.goType) THEN Ret(NoRowStmt, ErrTypeNotRegistered)
    ELSE LET ti == ForType(m, o.goType)
         IN  Ret(RowStmt("delete", ti.sqlName, NoValues, PKWhere(ti, ids)), "")

\* Builder.ResultWithOneUpdate: the error if there is one, ErrUpdateFailed unless
\* exactly one row was affected
ResultWithOneUpdate(n, err) ==
    IF err # "" THEN err ELSE IF n # 1 THEN ErrUpdateFailed ELSE ""

----------------------------------------------------------------------------
(* The database: test_book_category(book_id, category_id),                 *)
(* PRIMARY KEY(book_id, category_id)                                       *)

JoinTable == "test_book_category"
JoinRow(b, c) == [book_id |-> b, category_id |-> c]
JoinRows == {JoinRow(b, c) : b \in BookIDs, c \in CategoryIDs}

\* a row satisfies one condition / all conditions of a WHERE clause
Holds(r, c) ==
    IF c.op = "=" THEN r[c.col] = c.args[1] ELSE r[c.col] \notin Range(c.args)
Matches(r, where) == \A i \in DOMAIN where : Holds(r, where[i])

\* the result of executing a statement: the table afterwards, RowsAffected, the error
ExecResult(rows, n, err) == [rows |-> rows, n |-> n, err |-> err]

\* DELETE FROM <table> WHERE ...
ExecDelete(stmt, rows) ==
    LET gone == {r \in rows : Matches(r, stmt.where)}
    IN  ExecResult(rows \ gone, Cardinality(gone), "")

\* the rows of a multi-row VALUES list, one per (?,?) group
ValueRows(stmt) ==
    {[c \in Range(stmt.cols) |-> IF c = stmt.cols[1] THEN stmt.args[2 * i - 1]
                                                       ELSE stmt.args[2 * i]]
        : i \in 1..(Len(stmt.args) \div 2)}

\* the idioms under which a row that violates the primary key is skipped
IgnoresConflicts(idiom) ==
    idiom \in {"INSERT OR IGNORE INTO", "INSERT IGNORE INTO",
               "INSERT INTO ... ON CONFLICT DO NOTHING"}

\* INSERT ... VALUES (?,?),...: under an ignore idiom the rows that are new are
\* added; a plain INSERT fails as a whole on a duplicate key (in the table or
\* within the VALUES list) and adds nothing
ExecInsert(stmt, rows) ==
    LET new == ValueRows(stmt) \ rows
        dup == Cardinality(ValueRows(stmt)) < Len(stmt.args) \div 2
               \/ ValueRows(stmt) \cap rows # {}
    IN  IF IgnoresConflicts(stmt.idiom) THEN ExecResult(rows \cup new, Cardinality(new), "")
        ELSE IF dup THEN ExecResult(rows, 0, "UNIQUE constraint failed")
        ELSE ExecResult(rows \cup new, Cardinality(new), "")

\* SELECT <col> FROM <table> WHERE ...: the selected column of the matching rows
ExecSelect(stmt, rows) == {r[stmt.cols[1]] : r \in {q \in rows : Matches(q, stmt.where)}}

\* col = ? on a row of an entity table; comparing with NULL (a nil argument) is never true
HoldsV(r, c) == IF c.arg.kind = "nil" THEN FALSE ELSE r[c.col] = c.arg.val
MatchesV(r, where) == \A i \in DOMAIN where : HoldsV(r, where[i])

\* UPDATE <table> SET ... WHERE ...: RowsAffected is the number of rows matched
ExecUpdate(stmt, rows) ==
    LET hit == {r \in rows : MatchesV(r, stmt.where)}
        set(r) == [col \in DOMAIN r |-> IF col \in DOMAIN stmt.set THEN stmt.set[col].val ELSE r[col]]
    IN  ExecResult((rows \ hit) \cup {set(r) : r \in hit}, Cardinality(hit), "")

\* DELETE FROM <table> WHERE ... on an entity table
ExecDeleteV(stmt, rows) ==
    LET hit == {r \in rows : MatchesV(r, stmt.where)}
    IN  ExecResult(rows \ hit, Cardinality(hit), "")

\* INSERT INTO <table> (cols) VALUES (...): fails on a duplicate primary key
ExecInsertV(stmt, rows, pk) ==
    LET row == [col \in DOMAIN stmt.set |-> stmt.set[col].val]
    IN  IF \E r \in rows : \A i \in DOMAIN pk : r[pk[i]] = row[pk[i]]
        THEN ExecResult(rows, 0, "UNIQUE constraint failed")
        ELSE ExecResult(rows \cup {row}, 1, "")

\* SELECT ... WHERE ...; LoadOne: the matching rows
ExecSelectV(stmt, rows) == {r \in rows : MatchesV(r, stmt.where)}

\* Exec() of a built statement against the join table
Exec(stmt, rows) ==
    IF stmt.table # JoinTable THEN ExecResult(rows, 0, "no such table")
    ELSE IF stmt.kind = "delete" THEN ExecDelete(stmt, rows)
    ELSE ExecInsert(stmt, rows)

\* ExecOK without the reflect check for a typed nil pointer: Exec() on a nil statement
ExecOKNilInterfaceOnly(execer, rows) ==
    IF execer.kind = "nilinterface" THEN [rows |-> rows, err |-> "", issued |-> 0, panicked |-> FALSE]
    ELSE IF execer.kind = "nil" THEN [rows |-> rows, err |-> NilDeref, issued |-> 0, panicked |-> TRUE]
    ELSE LET res == Exec(execer, rows)
         IN  [rows |-> res.rows, err |-> res.err, issued |-> 1, panicked |-> FALSE]

\* Builder.ExecOK: a nil Execer and a typed nil pointer execute nothing and return nil;
\* otherwise Exec() is called and only its error is kept
ExecOK(execer, rows) ==
    IF execer.kind = "nilinterface" THEN [rows |-> rows, err |-> "", issued |-> 0, panicked |-> FALSE]
    ELSE IF execer.kind = "nil" THEN [rows |-> rows, err |-> "", issued |-> 0, panicked |-> FALSE]
    ELSE LET res == Exec(execer, rows)
         IN  [rows |-> res.rows, err |-> res.err, issued |-> 1, panicked |-> FALSE]

----------------------------------------------------------------------------
(* The callers: the synchronisation code of TestRelationBelongsToManyIDs   *)
(* and of the README (UpdateWidget), statement by statement.               *)

\* what a caller passes to the Builder: a registered type with its BelongsToManyIDs
\* relation, with a relation of another kind, with an unknown relation name, and a
\* struct that was never parsed
Targets ==
    {[goType |-> "Book", rel |-> "category_id_list"],
     [goType |-> "Book", rel |-> "category_list"],
     [goType |-> "Book", rel |-> "tag_id_list"],
     [goType |-> "Magazine", rel |-> "category_id_list"]}

Record(goType, id, ids) == [goType |-> goType, book_id |-> id, CategoryIDList |-> ids]

\* the record's links: the join rows whose own-id column is the record's first key value
LinksOf(rows, id) == {r \in rows : r.book_id = id}
OthersOf(rows, id) == {r.category_id : r \in LinksOf(rows, id)}

IdleRecord == Record("Book", "book_0001", NilSlice)

Prepare(c, t, x, ids) ==
    /\ pc[c] = "idle"
    /\ rec' = [rec EXCEPT ![c] = Record(t.goType, x, ids)]
    /\ relName' = [relName EXCEPT ![c] = t.rel]
    /\ pc' = [pc EXCEPT ![c] = "ready"]
    /\ base' = [base EXCEPT ![c] = join]
    /\ UNCHANGED <<join, dialect, prev, want, runs, issued, lastErr, lastUnit>>

\* b.ExecOK(b.MustDeleteRelationNotIn(&book, rel)): Must... panics on a builder error
DeleteStep(c, rows) ==
    LET r == DeleteRelationNotIn(TestMeta, rec[c], relName[c])
    IN  IF r.panicked \/ r.err # ""
        THEN [rows |-> rows, err |-> r.err, issued |-> 0, panicked |-> TRUE]
        ELSE ExecOK(r.stmt, rows)

\* b.ExecOK(b.MustInsertRelationIgnore(&book, rel))
InsertStep(c, rows) ==
    LET r == InsertRelationIgnore(TestMeta, dialect, rec[c], relName[c])
    IN  IF r.panicked \/ r.err # ""
        THEN [rows |-> rows, err |-> r.err, issued |-> 0, panicked |-> TRUE]
        ELSE ExecOK(r.stmt, rows)

\* a caller that goes on to the insert without having run the delete
SyncDeleteSkipped(c) ==
    /\ pc[c] = "ready"
    /\ pc' = [pc EXCEPT ![c] = "deleted"]
    /\ UNCHANGED <<join, dialect, rec, relName, base, prev, want, runs, issued, lastErr, lastUnit>>

SyncDelete(c) ==
    /\ pc[c] = "ready"
    /\ LET e == DeleteStep(c, join)
       IN  /\ join' = e.rows
           /\ issued' = [issued EXCEPT ![c] = @ + e.issued]
           /\ lastErr' = [lastErr EXCEPT ![c] = e.err]
           /\ pc' = [pc EXCEPT ![c] = IF e.err = "" THEN "deleted" ELSE "failed"]
    /\ UNCHANGED <<dialect, rec, relName, base, prev, want, runs, lastUnit>>

SyncInsert(c) ==
    /\ pc[c] = "deleted"
    /\ LET e == InsertStep(c, join)
       IN  /\ join' = e.rows
           /\ issued' = [issued EXCEPT ![c] = @ + e.issued]
           /\ lastErr' = [lastErr EXCEPT ![c] = e.err]
           /\ pc' = [pc EXCEPT ![c] = IF e.err = "" THEN "done" ELSE "failed"]
           /\ runs' = [runs EXCEPT ![c] = IF e.err = "" THEN @ + 1 ELSE @]
           /\ want' = [want EXCEPT ![c] = IF e.err = "" THEN rec[c].CategoryIDList ELSE @]
    /\ UNCHANGED <<dialect, rec, relName, base, prev, lastUnit>>

\* a caller that runs the insert statement without the delete statement
SyncInsertOnly(c) ==
    /\ pc[c] = "ready"
    /\ LET e == InsertStep(c, join)
       IN  /\ join' = e.rows
           /\ issued' = [issued EXCEPT ![c] = @ + e.issued]
           /\ lastErr' = [lastErr EXCEPT ![c] = e.err]
           /\ pc' = [pc EXCEPT ![c] = IF e.err = "" THEN "insertOnly" ELSE "failed"]
    /\ UNCHANGED <<dialect, rec, relName, base, prev, want, runs, lastUnit>>

\* the same record reconciled once more, its list unchanged
Repeat(c) ==
    /\ pc[c] = "done"
    /\ runs[c] < MaxRuns
    /\ pc' = [pc EXCEPT ![c] = "ready"]
    /\ prev' = [prev EXCEPT ![c] = join]
    /\ base' = [base EXCEPT ![c] = join]
    /\ issued' = [issued EXCEPT ![c] = 0]
    /\ UNCHANGED <<join, dialect, rec, relName, want, runs, lastErr, lastUnit>>

\* book.CategoryIDList = ids, then the record is reconciled again
SetList(c, ids) ==
    /\ pc[c] \in {"done", "loaded"}
    /\ ids # rec[c].CategoryIDList
    /\ rec' = [rec EXCEPT ![c].CategoryIDList = ids]
    /\ pc' = [pc EXCEPT ![c] = "ready"]
    /\ base' = [base EXCEPT ![c] = join]
    /\ runs' = [runs EXCEPT ![c] = 0]
    /\ issued' = [issued EXCEPT ![c] = 0]
    /\ prev' = [prev EXCEPT ![c] = {}]
    /\ want' = [want EXCEPT ![c] = NilSlice]
    /\ UNCHANGED <<join, dialect, relName, lastErr, lastUnit>>

\* book.CategoryIDList = nil; b.MustSelectRelation(&book, rel).Load(RelationTargetPtr):
\* the selected ids are appended to the field in the order the database returns them
Load(c) ==
    /\ pc[c] = "done"
    /\ LET r == SelectRelationIDs(TestMeta, rec[c], relName[c])
           ids == ExecSelect(r.stmt, join)
       IN  /\ ~r.panicked /\ r.err = ""
           /\ \E o \in Orderings(ids) :
                rec' = [rec EXCEPT ![c].CategoryIDList =
                            IF ids = {} THEN NilSlice ELSE Slice(FALSE, o)]
    /\ pc' = [pc EXCEPT ![c] = "loaded"]
    /\ UNCHANGED <<join, dialect, relName, base, prev, want, runs, issued, lastErr, lastUnit>>

\* the caller drops the record
Finish(c) ==
    /\ pc[c] \in {"failed", "insertOnly", "deleted", "done", "loaded"}
    /\ pc' = [pc EXCEPT ![c] = "idle"]
    /\ rec' = [rec EXCEPT ![c] = IdleRecord]
    /\ relName' = [relName EXCEPT ![c] = ""]
    /\ base' = [base EXCEPT ![c] = {}]
    /\ prev' = [prev EXCEPT ![c] = {}]
    /\ want' = [want EXCEPT ![c] = NilSlice]
    /\ runs' = [runs EXCEPT ![c] = 0]
    /\ issued' = [issued EXCEPT ![c] = 0]
    /\ lastErr' = [lastErr EXCEPT ![c] = ""]
    /\ UNCHANGED <<join, dialect, lastUnit>>

\* the unit committing the delete although the insert failed
SyncTxNoRollback(c) ==
    /\ pc[c] = "ready"
    /\ LET d == DeleteStep(c, join)
           i == InsertStep(c, d.rows)
           ok == d.err = "" /\ i.err = ""
       IN  /\ join' = IF d.err = "" THEN i.rows ELSE join
           /\ issued' = [issued EXCEPT ![c] = @ + d.issued + (IF d.err = "" THEN i.issued ELSE 0)]
           /\ lastErr' = [lastErr EXCEPT ![c] = IF d.err # "" THEN d.err ELSE i.err]
           /\ pc' = [pc EXCEPT ![c] = IF ok THEN "done" ELSE "failed"]
           /\ runs' = [runs EXCEPT ![c] = IF ok THEN @ + 1 ELSE @]
           /\ want' = [want EXCEPT ![c] = IF ok THEN rec[c].CategoryIDList ELSE @]
           /\ lastUnit' = IF d.err = "" THEN c ELSE lastUnit
    /\ UNCHANGED <<dialect, rec, relName, base, prev>>

\* UpdateWidget of the README: the delete and the insert inside one transaction,
\* which commits when both succeed and is rolled back otherwise
SyncTx(c) ==
    /\ pc[c] = "ready"
    /\ LET d == DeleteStep(c, join)
           i == InsertStep(c, d.rows)
           ok == d.err = "" /\ i.err = ""
       IN  /\ join' = IF ok THEN i.rows ELSE join
           /\ issued' = [issued EXCEPT ![c] = @ + d.issued + (IF d.err = "" THEN i.issued ELSE 0)]
           /\ lastErr' = [lastErr EXCEPT ![c] = IF d.err # "" THEN d.err ELSE i.err]
           /\ pc' = [pc EXCEPT ![c] = IF ok THEN "done" ELSE "failed"]
           /\ runs' = [runs EXCEPT ![c] = IF ok THEN @ + 1 ELSE @]
           /\ want' = [want EXCEPT ![c] = IF ok THEN rec[c].CategoryIDList ELSE @]
           /\ lastUnit' = IF ok THEN c ELSE lastUnit
    /\ UNCHANGED <<dialect, rec, relName, base, prev>>

\* no entity table in use, no caller editing a row
NoRecord == [goType |-> "", verKind |-> ""]
NoResult == [n |-> 0, err |-> "", panicked |-> FALSE, byPtr |-> FALSE]

InitNoUpdates ==
    /\ tbl = {}
    /\ entity = NoRecord
    /\ urec = [c \in Callers |-> NoRecord]
    /\ upc = [c \in Callers |-> "idle"]
    /\ ures = [c \in Callers |-> NoResult]

\* no operation on the registry yet
NoOp == [op |-> "", t |-> "", name |-> <<>>, err |-> "", panicked |-> FALSE, isNil |-> FALSE]

InitNoRegistry ==
    /\ meta = <<>>
    /\ mprev = <<>>
    /\ mop = NoOp
    /\ renames = 0

\* no Builder call yet
NoCall == [op |-> "", m |-> <<>>, o |-> NoRecord, byPtr |-> FALSE, rel |-> ""]

InitNoCalls ==
    /\ call = NoCall
    /\ out = Ret(NoStmt, "")

\* no accessor of a descriptor called yet
NoAccess ==
    [op |-> "", t |-> "", ti |-> <<>>, withPK |-> FALSE, o |-> <<>>,
     names |-> <<>>, where |-> <<>>, values |-> <<>>, vmap |-> <<>>]

InitNoAccess == acc = NoAccess

InitNoRace == lastIns = 0

\* no relation selected yet
NoSelect ==
    [op |-> "", m |-> <<>>, o |-> NoRecord, rel |-> "", ret |-> Ret(NoStmt, ""),
     rows |-> {}, links |-> {}, n |-> 0]

InitNoSelect ==
    /\ store = <<>>
    /\ sel = NoSelect

\* no handle taken yet
NoHandle ==
    [kind |-> "none", field |-> "", val |-> NilValue, rel |-> "", byPtr |-> FALSE,
     panicked |-> FALSE]
NoFieldOp == [op |-> "", field |-> "", val |-> NilValue]

InitNoHandle ==
    /\ obj = <<>>
    /\ hnd = NoHandle
    /\ hop = NoFieldOp

\* no call of sqlFieldIndex yet
NoIndexCall == [t |-> "", name |-> <<>>]
NoIndexResult == [ret |-> <<>>, ok |-> FALSE, out |-> <<>>, returned |-> FALSE]

InitNoIndex ==
    /\ cache = <<>>
    /\ rdlock = {}
    /\ wrlock = 0
    /\ ipc = [c \in Callers |-> "idle"]
    /\ iarg = [c \in Callers |-> NoIndexCall]
    /\ iret = [c \in Callers |-> NoIndexResult]

InitOthers ==
    /\ InitNoAccess
    /\ InitNoRace
    /\ InitNoSelect
    /\ InitNoHandle
    /\ InitNoIndex

InitCallers ==
    /\ rec = [c \in Callers |-> IdleRecord]
    /\ relName = [c \in Callers |-> ""]
    /\ pc = [c \in Callers |-> "idle"]
    /\ base = [c \in Callers |-> {}]
    /\ prev = [c \in Callers |-> {}]
    /\ want = [c \in Callers |-> NilSlice]
    /\ runs = [c \in Callers |-> 0]
    /\ issued = [c \in Callers |-> 0]
    /\ lastErr = [c \in Callers |-> ""]
    /\ lastUnit = 0

\* one caller reconciling records against any content of the join table
Init ==
    /\ join \in SUBSET JoinRows
    /\ dialect \in Dialects
    /\ InitCallers
    /\ InitNoUpdates
    /\ InitNoRegistry
    /\ InitNoCalls
    /\ InitOthers

Next ==
    \/ \E t \in Targets, x \in BookIDs, ids \in Slices : Prepare(1, t, x, ids) /\ UNCHANGED <<updVars, regVars, bldVars, otherVars>>
    \/ SyncDelete(1) /\ UNCHANGED <<updVars, regVars, bldVars, otherVars>>
    \/ SyncInsert(1) /\ UNCHANGED <<updVars, regVars, bldVars, otherVars>>
    \/ SyncInsertOnly(1) /\ UNCHANGED <<updVars, regVars, bldVars, otherVars>>
    \/ Repeat(1) /\ UNCHANGED <<updVars, regVars, bldVars, otherVars>>
    \/ \E ids \in Slices : SetList(1, ids) /\ UNCHANGED <<updVars, regVars, bldVars, otherVars>>
    \/ Load(1) /\ UNCHANGED <<updVars, regVars, bldVars, otherVars>>
    \/ Finish(1) /\ UNCHANGED <<updVars, regVars, bldVars, otherVars>>

Spec == Init /\ [][Next]_vars

----------------------------------------------------------------------------
(* Join-table reconciliation: the properties *)

GoodTarget == [goType |-> "Book", rel |-> "category_id_list"]
IsGood(c) == rec[c].goType = GoodTarget.goType /\ relName[c] = GoodTarget.rel

\* the desired links of caller c's record: {(id, d) : d in D}
Desired(c) == {JoinRow(rec[c].book_id, d) : d \in Range(rec[c].CategoryIDList.elems)}
MyLinks(c) == LinksOf(join, rec[c].book_id)
BaseLinks(c) == LinksOf(base[c], rec[c].book_id)

\* two callers reconciling the same record, each inside one transaction; the
\* transactions are serialized by the database and commit in either order
TheBook == "book_0001"
OtherLink == JoinRow("book_0002", "category_0001")

InitTx ==
    /\ join \in {{OtherLink} \cup links : links \in SUBSET LinksOf(JoinRows, TheBook)}
    /\ dialect \in Dialects
    /\ InitCallers
    /\ InitNoUpdates
    /\ InitNoRegistry
    /\ InitNoCalls
    /\ InitOthers

NextTx ==
    \/ \E c \in Callers, ids \in Slices : Prepare(c, GoodTarget, TheBook, ids) /\ UNCHANGED <<updVars, regVars, bldVars, otherVars>>
    \/ \E c \in Callers : SyncTx(c) /\ UNCHANGED <<updVars, regVars, bldVars, otherVars>>

SpecTx == InitTx /\ [][NextTx]_vars

----------------------------------------------------------------------------
(* The callers of the CRUD code (TestCRUD, README "Optimistic Locking"):    *)
(* insert, select by id, edit, update by id, delete by id.                  *)

\* the entities whose rows are updated: Author has no version field; Publisher has
\* one, declared int64 in the test types, and with each other kind in turn
Entities ==
    {[goType |-> "Author", verKind |-> ""]} \cup
    {[goType |-> "Publisher", verKind |-> k] : k \in SupportedKinds \cup OtherKinds}

Versions == 0..MaxVersion

\* a struct value of the entity: its mapped fields by column name, plus the Go type
\* and the declared kind of the Version field
EntityRecord(e, id, name, ver) ==
    [f \in {"goType", "verKind"} \cup Range(DBFields(e.goType)) |->
        CASE f = "goType" -> e.goType
          [] f = "verKind" -> e.verKind
          [] f \in {"author_id", "publisher_id"} -> id
          [] f \in {"nom_de_plume", "company_name"} -> name
          [] OTHER -> ver]

KeyCol(e) == TestMeta[e.goType].sqlPKFields[1]
NameCol(e) == IF e.goType = "Author" THEN "nom_de_plume" ELSE "company_name"
HasVersion(e) == TestMeta[e.goType].sqlVersionField # ""

\* the stored row of a record: the values of its mapped columns
RowOf(o) == [col \in Range(DBFields(o.goType)) |-> o[col]]
EntityRows(e) ==
    {RowOf(EntityRecord(e, id, name, ver)) : id \in RowIDs, name \in RowNames, ver \in Versions}
StoredRow(rows, e, id) == {r \in rows : r[KeyCol(e)] = id}

\* _, err = b.MustInsert(&T{...}).Exec(), the insert succeeding
InsertRow(c, id, name, ver) ==
    /\ upc[c] = "idle"
    /\ LET r == Insert(TestMeta, EntityRecord(entity, id, name, ver))
           e == ExecInsertV(r.stmt, tbl, TestMeta[entity.goType].sqlPKFields)
       IN  /\ r.err = ""
           /\ e.err = ""
           /\ tbl' = e.rows
    /\ UNCHANGED <<entity, urec, upc, ures>>

\* b.MustSelectByID(&rec, id).LoadOne(&rec): the stored row is copied into the record
ReadRow(c, id) ==
    /\ upc[c] = "idle"
    /\ LET r == SelectByID(TestMeta, EntityRecord(entity, id, "", 0), <<Iface("string", id)>>)
           found == ExecSelectV(r.stmt, tbl)
       IN  /\ r.err = ""
           /\ found # {}
           /\ \E row \in found :
                urec' = [urec EXCEPT ![c] =
                    [f \in {"goType", "verKind"} \cup DOMAIN row |->
                        CASE f = "goType" -> entity.goType
                          [] f = "verKind" -> entity.verKind
                          [] OTHER -> row[f]]]
    /\ upc' = [upc EXCEPT ![c] = "read"]
    /\ ures' = [ures EXCEPT ![c] = NoResult]
    /\ UNCHANGED <<tbl, entity>>

\* rec.Name = name
EditRecord(c, name) ==
    /\ upc[c] = "read"
    /\ urec[c][NameCol(entity)] # name
    /\ urec' = [urec EXCEPT ![c][NameCol(entity)] = name]
    /\ UNCHANGED <<tbl, entity, upc, ures>>

\* err = b.ResultWithOneUpdate(b.MustUpdateByID(&rec).Exec()); MustUpdateByID panics
\* on a builder error, and a panic inside UpdateByID propagates
UpdateRow(c, byPtr) ==
    /\ upc[c] = "read"
    /\ LET r == UpdateByID(TestMeta, urec[c], byPtr)
           e == ExecUpdate(r.stmt, tbl)
       IN  IF r.panicked \/ r.err # ""
           THEN /\ tbl' = tbl
                /\ ures' = [ures EXCEPT ![c] =
                               [n |-> 0, err |-> r.err, panicked |-> TRUE, byPtr |-> byPtr]]
           ELSE /\ tbl' = e.rows
                /\ ures' = [ures EXCEPT ![c] =
                               [n |-> e.n, err |-> ResultWithOneUpdate(e.n, e.err),
                                panicked |-> FALSE, byPtr |-> byPtr]]
    /\ upc' = [upc EXCEPT ![c] = "updated"]
    /\ UNCHANGED <<entity, urec>>

\* b.ResultWithOneUpdate(b.MustDeleteByID(T{}, id).Exec()), the row being there
DeleteRow(c, id) ==
    /\ upc[c] = "idle"
    /\ LET r == DeleteByID(TestMeta, EntityRecord(entity, "", "", 0), <<Iface("string", id)>>)
           e == ExecDeleteV(r.stmt, tbl)
       IN  /\ r.err = ""
           /\ ResultWithOneUpdate(e.n, e.err) = ""
           /\ tbl' = e.rows
    /\ UNCHANGED <<entity, urec, upc, ures>>

\* the caller drops its record
Forget(c) ==
    /\ upc[c] = "updated"
    /\ upc' = [upc EXCEPT ![c] = "idle"]
    /\ urec' = [urec EXCEPT ![c] = NoRecord]
    /\ ures' = [ures EXCEPT ![c] = NoResult]
    /\ UNCHANGED <<tbl, entity>>

\* two callers working on the rows of one entity table
InitUpdate ==
    /\ entity \in Entities
    /\ tbl \in {rows \in SUBSET EntityRows(entity) :
                   \A r1, r2 \in rows : r1[KeyCol(entity)] = r2[KeyCol(entity)] => r1 = r2}
    /\ urec = [c \in Callers |-> NoRecord]
    /\ upc = [c \in Callers |-> "idle"]
    /\ ures = [c \in Callers |-> NoResult]
    /\ join = {}
    /\ dialect = "sqlite3"
    /\ InitCallers
    /\ InitNoRegistry
    /\ InitNoCalls
    /\ InitOthers

NextUpdate ==
    \/ \E c \in Callers, id \in RowIDs, name \in RowNames, ver \in Versions :
          InsertRow(c, id, name, ver) /\ UNCHANGED <<joinVars, regVars, bldVars, otherVars>>
    \/ \E c \in Callers, id \in RowIDs : ReadRow(c, id) /\ UNCHANGED <<joinVars, regVars, bldVars, otherVars>>
    \/ \E c \in Callers, name \in RowNames : EditRecord(c, name) /\ UNCHANGED <<joinVars, regVars, bldVars, otherVars>>
    \/ \E c \in Callers, byPtr \in BOOLEAN : UpdateRow(c, byPtr) /\ UNCHANGED <<joinVars, regVars, bldVars, otherVars>>
    \/ \E c \in Callers, id \in RowIDs : DeleteRow(c, id) /\ UNCHANGED <<joinVars, regVars, bldVars, otherVars>>
    \/ \E c \in Callers : Forget(c) /\ UNCHANGED <<joinVars, regVars, bldVars, otherVars>>

SpecUpdate == InitUpdate /\ [][NextUpdate]_vars

TypeOK ==
    /\ join \subseteq JoinRows
    /\ dialect \in Dialects
    /\ \A c \in Callers : pc[c] \in {"idle", "ready", "deleted", "insertOnly", "done", "loaded", "failed"}

\* C1 (convergence): once the delete statement and then the insert statement of a
\* record have been executed, the join rows of that record are exactly
\* {(id, d) : d in D}, whatever the join table held before and whatever
\* duplicates D contains.
C1_Convergence ==
    \A c \in Callers : pc[c] = "done" => MyLinks(c) = Desired(c)

\* C1 witness: from links {A, B} a record was reconciled to the list <<C, B>>.
C1_Witness ==
    /\ pc[1] = "done"
    /\ runs[1] = 1
    /\ OthersOf(base[1], rec[1].book_id) = {"category_0001", "category_0002"}
    /\ rec[1].CategoryIDList.elems = <<"category_0003", "category_0002">>
    /\ OthersOf(join, rec[1].book_id) = {"category_0002", "category_0003"}

\* C2 (idempotence): a second application of delete + insert with the same list,
\* directly after the first, runs to completion and leaves every row of the join
\* table as the first application left it (after its delete step and after its
\* insert step).
C2_Idempotence ==
    \A c \in Callers :
        /\ (runs[c] >= 1 /\ pc[c] \in {"deleted", "failed"}) => (join = prev[c] /\ pc[c] # "failed")
        /\ (runs[c] >= 2 /\ pc[c] = "done") => join = prev[c]

\* C2 witness: the second application of a two-id list has completed, both of its
\* statements having been executed.
C2_Witness ==
    /\ pc[1] = "done"
    /\ runs[1] = 2
    /\ issued[1] = 2
    /\ Cardinality(Desired(1)) = 2

\* C3 (zero case): for an empty or nil list the delete statement has the single
\* condition own-id = key and removes every link of the record, the insert builder
\* returns no statement and no error, and ExecOK on the absent statement (typed nil
\* pointer or nil interface) executes nothing and returns nil.
C3_ZeroCase ==
    /\ \A c \in Callers :
        (IsGood(c) /\ pc[c] # "idle" /\ SliceLen(rec[c].CategoryIDList) = 0) =>
            LET d == DeleteRelationNotIn(TestMeta, rec[c], relName[c])
                i == InsertRelationIgnore(TestMeta, dialect, rec[c], relName[c])
            IN  /\ d = Ret(Stmt("delete", "DELETE FROM", JoinTable, <<>>,
                                <<Cond("book_id", "=", <<rec[c].book_id>>)>>, <<>>), "")
                /\ i = Ret(NoStmt, "")
                /\ pc[c] # "failed"
                /\ pc[c] \in {"deleted", "done"} => (MyLinks(c) = {} /\ issued[c] = 1)
                /\ pc[c] = "insertOnly" => (join = base[c] /\ issued[c] = 0)
                /\ lastErr[c] = ""
    /\ \A e \in {NoStmt, NilExecer} :
        ExecOK(e, join) = [rows |-> join, err |-> "", issued |-> 0, panicked |-> FALSE]

\* C3 witness: a record with two links was reconciled to the nil list.
C3_Witness ==
    /\ pc[1] = "done"
    /\ rec[1].CategoryIDList = NilSlice
    /\ Cardinality(BaseLinks(1)) = 2
    /\ MyLinks(1) = {}

\* C4 (round trip): the ids loaded through the SelectRelation statement after a
\* sequence of reconciliations are, as a set, the desired list of the last one.
C4_RoundTrip ==
    \A c \in Callers :
        pc[c] = "loaded" => Range(rec[c].CategoryIDList.elems) = Range(want[c].elems)

\* C4 witness: two ids are loaded after a reconciliation that started from no link.
C4_Witness ==
    /\ pc[1] = "loaded"
    /\ BaseLinks(1) = {}
    /\ Len(rec[1].CategoryIDList.elems) = 2
    /\ Cardinality(Range(want[1].elems)) = 2

\* C5 (partial reconciliation): with J the record's links before, the delete
\* statement alone leaves J \cap D, the insert statement alone leaves J \cup D, and
\* no link outside J \cup D exists in either case.
C5_Partial ==
    \A c \in Callers :
        /\ pc[c] = "deleted" => MyLinks(c) = BaseLinks(c) \cap Desired(c)
        /\ pc[c] = "insertOnly" => MyLinks(c) = BaseLinks(c) \cup Desired(c)
        /\ pc[c] \in {"deleted", "insertOnly"} => MyLinks(c) \subseteq BaseLinks(c) \cup Desired(c)

\* C5 witness: only the delete statement ran, from links {A, B} towards {B, C}.
C5_Witness ==
    /\ pc[1] = "deleted"
    /\ OthersOf(base[1], rec[1].book_id) = {"category_0001", "category_0002"}
    /\ Range(rec[1].CategoryIDList.elems) = {"category_0002", "category_0003"}
    /\ OthersOf(join, rec[1].book_id) = {"category_0002"}

\* C6 (atomic units): when two callers reconcile the same record, each inside
\* one all-or-nothing unit, the record's links are exactly the desired set of the
\* unit that committed last (D1 or D2, never a mixture), and are untouched while no
\* unit has committed.
C6_AtomicUnits ==
    /\ lastUnit # 0 =>
          LinksOf(join, TheBook) = {JoinRow(TheBook, d) : d \in Range(want[lastUnit].elems)}
    /\ lastUnit = 0 => \A c \in Callers : pc[c] # "idle" => join = base[c]
    /\ (\A c \in Callers : pc[c] = "done") =>
          \E c \in Callers : LinksOf(join, TheBook) = Desired(c)

\* C6 witness: both units have committed, with different desired sets that overlap,
\* and the second caller's unit ran first.
C6_Witness ==
    /\ pc[1] = "done" /\ pc[2] = "done"
    /\ lastUnit = 1
    /\ Range(rec[1].CategoryIDList.elems) = {"category_0001", "category_0002"}
    /\ Range(rec[2].CategoryIDList.elems) = {"category_0002", "category_0003"}
    /\ OthersOf(join, TheBook) = {"category_0001", "category_0002"}

----------------------------------------------------------------------------
(* Optimistic locking: the properties *)

Versioned == HasVersion(entity) /\ entity.verKind \in SupportedKinds
VersionCol == TestMeta[entity.goType].sqlVersionField
RowFor(rows, c) == StoredRow(rows, entity, urec[c][KeyCol(entity)])

\* the statement the README describes for a record read at version v:
\* UPDATE ... SET <fields>, version = v+1 WHERE <key> = ? AND version = v
VersionedUpdate(o) ==
    LET ti == ForType(TestMeta, o.goType)
    IN  RowStmt("update", ti.sqlName,
                [SQLValueMap(ti, o, FALSE) EXCEPT ![VersionCol] = Iface(o.verKind, o.version + 1)],
                PKWhere(ti, PKIfaces(ti, o)) \o <<CondV(VersionCol, Iface(o.verKind, o.version))>>)

\* C7 (optimistic-lock outcome): an update by id of a versioned record, passed by
\* pointer, affects exactly one row and advances the stored version by one when the
\* record's version equals the stored one; otherwise it affects no row, leaves the
\* table unchanged and ResultWithOneUpdate reports ErrUpdateFailed.
C7_OptimisticLock ==
    [][\A c \in Callers :
          (Versioned /\ upc[c] = "read" /\ upc'[c] = "updated" /\ ures'[c].byPtr) =>
              IF \E r \in RowFor(tbl, c) : r[VersionCol] = urec[c].version
              THEN /\ ~ures'[c].panicked
                   /\ ures'[c].n = 1
                   /\ ures'[c].err = ""
                   /\ \A r \in RowFor(tbl', c) : r[VersionCol] = urec[c].version + 1
              ELSE /\ ~ures'[c].panicked
                   /\ ures'[c].n = 0
                   /\ ures'[c].err = ErrUpdateFailed
                   /\ tbl' = tbl]_vars

\* C8 (shape of the versioned update): for a record whose Version field holds v, of a
\* supported integer kind, UpdateByID returns without error the statement that sets
\* version = v+1 and whose conditions are the key condition and version = v.
C8_VersionedShape ==
    \A c \in Callers :
        (Versioned /\ upc[c] = "read") =>
            LET r == UpdateByID(TestMeta, urec[c], TRUE)
            IN  /\ ~r.panicked
                /\ r.err = ""
                /\ r.stmt = VersionedUpdate(urec[c])

\* C9 (no lost update): when both callers hold the same row read at the same version
\* and both have executed their update, exactly one update affected a row, the other
\* affected none and was reported as ErrUpdateFailed, and the stored version is v+1.
C9_NoLostUpdate ==
    (/\ Versioned
     /\ \A c \in Callers : upc[c] = "updated" /\ ures[c].byPtr
     /\ urec[1][KeyCol(entity)] = urec[2][KeyCol(entity)]
     /\ urec[1].version = urec[2].version) =>
        /\ \E w \in Callers :
              /\ ~ures[w].panicked /\ ures[w].n = 1 /\ ures[w].err = ""
              /\ \A l \in Callers \ {w} :
                    ~ures[l].panicked /\ ures[l].n = 0 /\ ures[l].err = ErrUpdateFailed
        /\ \A r \in RowFor(tbl, 1) : r[VersionCol] = urec[1].version + 1

\* C10 (version type error): UpdateByID returns the type error and no statement
\* exactly when the entity has a version field whose value is of none of the
\* supported kinds; in every other case it returns a statement and no error.
C10_VersionTypeError ==
    \A c \in Callers :
        upc[c] = "read" =>
            LET r == UpdateByID(TestMeta, urec[c], TRUE)
                typeError == ~r.panicked /\ r.err = ErrNotSupportedInteger /\ r.stmt.kind = "nil"
            IN  /\ typeError <=> (HasVersion(entity) /\ entity.verKind \notin SupportedKinds)
                /\ ~typeError => (~r.panicked /\ r.err = "" /\ r.stmt.kind = "update")

----------------------------------------------------------------------------
(* The registry (tmeta.Meta): parsing struct declarations.                  *)
(*                                                                          *)
(* Where the code computes on the characters of a name (camelToSnake,      *)
(* strings.Replace, strings.Trim), the name is a sequence of one-character *)
(* strings; "" is the empty sequence.                                      *)

Letters ==
    <<"a", "b", "c", "d", "e", "f", "g", "h", "i", "j", "k", "l", "m",
      "n", "o", "p", "q", "r", "s", "t", "u", "v", "w", "x", "y", "z">>
Capitals ==
    <<"A", "B", "C", "D", "E", "F", "G", "H", "I", "J", "K", "L", "M",
      "N", "O", "P", "Q", "R", "S", "T", "U", "V", "W", "X", "Y", "Z">>
Digits == <<"0", "1", "2", "3", "4", "5", "6", "7", "8", "9">>

IsLower(r) == r \in Range(Letters)
IsUpper(r) == r \in Range(Capitals)
IsDigit(r) == r \in Range(Digits)

\* strings.ToLower, one character and a whole string
ToLowerRune(r) ==
    IF IsUpper(r) THEN Letters[CHOOSE i \in DOMAIN Capitals : Capitals[i] = r] ELSE r
ToLower(s) == [i \in DOMAIN s |-> ToLowerRune(s[i])]

\* the character class split() switches on
RuneClass(r) ==
    CASE IsLower(r) -> 1
      [] IsUpper(r) -> 2
      [] IsDigit(r) -> 3
      [] OTHER -> 4

\* split, first loop: cut src between adjacent characters of different classes
RECURSIVE SplitRuns(_, _, _, _)
SplitRuns(src, i, runes, lastClass) ==
    IF i > Len(src) THEN runes
    ELSE LET class == RuneClass(src[i])
         IN  IF class = lastClass
             THEN SplitRuns(src, i + 1,
                            [runes EXCEPT ![Len(runes)] = Append(@, src[i])], class)
             ELSE SplitRuns(src, i + 1, Append(runes, <<src[i]>>), class)

\* split, second loop: "PDFL", "oader" -> "PDF", "Loader"
RECURSIVE SplitShift(_, _)
SplitShift(runes, i) ==
    IF i > Len(runes) - 1 THEN runes
    ELSE IF IsUpper(runes[i][1]) /\ IsLower(runes[i + 1][1])
         THEN SplitShift([runes EXCEPT
                             ![i + 1] = <<runes[i][Len(runes[i])]>> \o @,
                             ![i] = SubSeq(@, 1, Len(@) - 1)],
                         i + 1)
         ELSE SplitShift(runes, i + 1)

\* split, third loop: the non-empty entries
split(src) == SelectSeq(SplitShift(SplitRuns(src, 1, <<>>, 0), 1), LAMBDA e : Len(e) > 0)

\* strings.Join
RECURSIVE Join(_, _)
Join(parts, sep) ==
    IF Len(parts) = 0 THEN <<>>
    ELSE IF Len(parts) = 1 THEN parts[1]
    ELSE parts[1] \o sep \o Join(Tail(parts), sep)

camelToSnake(s) ==
    LET parts == split(s)
    IN  Join([i \in DOMAIN parts |-> ToLower(parts[i])], <<"_">>)

\* strings.Index: the first position at which old occurs in s, 0 if there is none
\* (the empty string occurs at the start of every string)
IndexOf(s, old) ==
    LET hits == {i \in 1..(Len(s) - Len(old) + 1) : SubSeq(s, i, i + Len(old) - 1) = old}
    IN  IF hits = {} THEN 0 ELSE CHOOSE i \in hits : \A j \in hits : i <= j

\* strings.Replace(s, old, "", 1): s without the first occurrence of old
RemoveFirst(s, old) ==
    LET i == IndexOf(s, old)
    IN  IF i = 0 THEN s ELSE SubSeq(s, 1, i - 1) \o SubSeq(s, i + Len(old), Len(s))

\* strings.Trim(s, "_")
RECURSIVE TrimUnderscores(_)
TrimUnderscores(s) ==
    IF Len(s) = 0 THEN s
    ELSE IF Head(s) = "_" THEN TrimUnderscores(Tail(s))
    ELSE IF s[Len(s)] = "_" THEN TrimUnderscores(SubSeq(s, 1, Len(s) - 1))
    ELSE s

----------------------------------------------------------------------------
(* Struct declarations as reflection presents them *)

\* one comma-separated part of a tmeta tag: key, or key=value
Part(k, v) == [k |-> k, v |-> v]

\* a reflect.StructField: db is the first comma-separated part of the db tag, tmeta
\* the parts of the tmeta tag, Inner the fields of an embedded struct
Field(name, kind, db, tmeta) ==
    [Name |-> name, PkgPath |-> "", Anonymous |-> FALSE, Kind |-> kind, Inner |-> <<>>,
     db |-> db, tmeta |-> tmeta]
Embedded(name, inner) ==
    [Name |-> name, PkgPath |-> "", Anonymous |-> TRUE, Kind |-> "struct", Inner |-> inner,
     db |-> <<>>, tmeta |-> <<>>]
Unexported(name, kind, db, tmeta) ==
    [Name |-> name, PkgPath |-> "main", Anonymous |-> FALSE, Kind |-> kind, Inner |-> <<>>,
     db |-> db, tmeta |-> tmeta]

\* type Author struct
AuthorFields ==
    <<Field(<<"A", "u", "t", "h", "o", "r", "I", "D">>, "string", <<"a", "u", "t", "h", "o", "r", "_", "i", "d">>,
              <<Part("pk", <<>>)>>),
      Field(<<"N", "o", "m", "D", "e", "P", "l", "u", "m", "e">>, "string", <<"n", "o", "m", "_", "d", "e", "_", "p", "l", "u", "m", "e">>,
              <<>>),
      Field(<<"B", "o", "o", "k", "L", "i", "s", "t">>, "slice", <<"-">>,
              <<Part("has_many", <<>>)>>)>>

\* type Book struct
BookFields ==
    <<Field(<<"B", "o", "o", "k", "I", "D">>, "string", <<"b", "o", "o", "k", "_", "i", "d">>,
              <<Part("pk", <<>>)>>),
      Field(<<"A", "u", "t", "h", "o", "r", "I", "D">>, "string", <<"a", "u", "t", "h", "o", "r", "_", "i", "d">>,
              <<>>),
      Field(<<"A", "u", "t", "h", "o", "r">>, "ptr", <<"-">>,
              <<Part("belongs_to", <<>>), Part("sql_id_field", <<"a", "u", "t", "h", "o", "r", "_", "i", "d">>)>>),
      Field(<<"P", "u", "b", "l", "i", "s", "h", "e", "r", "I", "D">>, "string", <<"p", "u", "b", "l", "i", "s", "h", "e", "r", "_", "i", "d">>,
              <<>>),
      Field(<<"P", "u", "b", "l", "i", "s", "h", "e", "r">>, "ptr", <<"-">>,
              <<Part("belongs_to", <<>>)>>),
      Field(<<"T", "i", "t", "l", "e">>, "string", <<"t", "i", "t", "l", "e">>,
              <<>>),
      Field(<<"C", "a", "t", "e", "g", "o", "r", "y", "L", "i", "s", "t">>, "slice", <<"-">>,
              <<Part("belongs_to_many", <<>>), Part("join_name", <<"b", "o", "o", "k", "_", "c", "a", "t", "e", "g", "o", "r", "y">>)>>),
      Field(<<"C", "a", "t", "e", "g", "o", "r", "y", "I", "D", "L", "i", "s", "t">>, "slice", <<"-">>,
              <<Part("belongs_to_many_ids", <<>>), Part("join_name", <<"b", "o", "o", "k", "_", "c", "a", "t", "e", "g", "o", "r", "y">>)>>)>>

\* type Category struct
CategoryFields ==
    <<Field(<<"C", "a", "t", "e", "g", "o", "r", "y", "I", "D">>, "string", <<"c", "a", "t", "e", "g", "o", "r", "y", "_", "i", "d">>,
              <<Part("pk", <<>>)>>),
      Field(<<"N", "a", "m", "e">>, "string", <<"n", "a", "m", "e">>,
              <<>>),
      Field(<<"B", "o", "o", "k", "L", "i", "s", "t">>, "slice", <<"-">>,
              <<Part("belongs_to_many", <<>>), Part("join_name", <<"b", "o", "o", "k", "_", "c", "a", "t", "e", "g", "o", "r", "y">>)>>),
      Field(<<"C", "a", "t", "e", "g", "o", "r", "y", "I", "n", "f", "o">>, "ptr", <<"-">>,
              <<Part("has_one", <<>>)>>)>>

\* type Widget struct (README, Table Info)
WidgetFields ==
    <<Field(<<"W", "i", "d", "g", "e", "t", "I", "D">>, "string", <<"w", "i", "d", "g", "e", "t", "_", "i", "d">>,
              <<Part("pk", <<>>)>>),
      Field(<<"N", "a", "m", "e">>, "string", <<"n", "a", "m", "e">>,
              <<>>)>>

\* a CustomWidget embedding the original Widget (doc of ParseTypeNamed), with an
\* unexported field and a relation whose other-id field is given
CustomWidgetFields ==
    <<Embedded(<<"W", "i", "d", "g", "e", "t">>, WidgetFields),
      Unexported(<<"d", "r", "a", "f", "t", "s">>, "slice", <<"-">>,
              <<Part("has_many", <<>>)>>),
      Field(<<"P", "a", "r", "t", "L", "i", "s", "t">>, "slice", <<"-">>,
              <<Part("has_many", <<>>), Part("sql_other_id_field", <<"o", "w", "n", "e", "r", "_", "i", "d">>)>>),
      Field(<<"G", "a", "u", "g", "e">>, "ptr", <<"-">>,
              <<Part("has_one", <<>>), Part("relation_name", <<"m", "e", "t", "e", "r">>), Part("sql_other_id_field", <<"g", "a", "d", "g", "e", "t", "_", "i", "d">>)>>)>>

\* a struct with no field tagged pk
NoteFields ==
    <<Field(<<"T", "e", "x", "t">>, "string", <<"t", "e", "x", "t">>,
              <<>>),
      Field(<<"T", "a", "g", "L", "i", "s", "t">>, "slice", <<"-">>,
              <<Part("has_many", <<>>)>>)>>

\* a struct whose many-to-many relation field is declared before its key field
TopicFields ==
    <<Field(<<"T", "a", "g", "I", "D", "L", "i", "s", "t">>, "slice", <<"-">>,
              <<Part("belongs_to_many_ids", <<>>), Part("join_name", <<"t", "o", "p", "i", "c", "_", "t", "a", "g">>)>>),
      Field(<<"T", "o", "p", "i", "c", "I", "D">>, "string", <<"t", "o", "p", "i", "c", "_", "i", "d">>,
              <<Part("pk", <<>>)>>)>>

\* a struct whose many-to-many relation has no join_name
AlbumFields ==
    <<Field(<<"A", "l", "b", "u", "m", "I", "D">>, "string", <<"a", "l", "b", "u", "m", "_", "i", "d">>,
              <<Part("pk", <<>>)>>),
      Field(<<"S", "o", "n", "g", "L", "i", "s", "t">>, "slice", <<"-">>,
              <<Part("belongs_to_many", <<>>)>>)>>

\* a struct with two relation fields whose names have the same snake case, and a
\* many-to-many relation with every option given
LinkFields ==
    <<Field(<<"L", "i", "n", "k", "I", "D">>, "string", <<"l", "i", "n", "k", "_", "i", "d">>,
              <<Part("pk", <<>>), Part("auto_incr", <<>>)>>),
      Field(<<"R", "e", "v">>, "int64", <<"r", "e", "v">>,
              <<Part("version", <<>>)>>),
      Field(<<"U", "R", "L", "L", "i", "s", "t">>, "slice", <<"-">>,
              <<Part("has_many", <<>>)>>),
      Field(<<"U", "r", "l", "L", "i", "s", "t">>, "slice", <<"-">>,
              <<Part("has_one", <<>>)>>),
      Field(<<"P", "e", "e", "r", "I", "D", "L", "i", "s", "t">>, "slice", <<"-">>,
              <<Part("belongs_to_many_ids", <<>>), Part("join_name", <<"m", "e", "s", "h">>), Part("sql_id_field", <<"f", "r", "o", "m", "_", "i", "d">>), Part("sql_other_id_field", <<"t", "o", "_", "i", "d">>)>>)>>

\* type BookCategory struct: the join entity, with a composite key
BookCategoryFields ==
    <<Field(<<"B", "o", "o", "k", "I", "D">>, "string", <<"b", "o", "o", "k", "_", "i", "d">>,
              <<Part("pk", <<>>)>>),
      Field(<<"C", "a", "t", "e", "g", "o", "r", "y", "I", "D">>, "string", <<"c", "a", "t", "e", "g", "o", "r", "y", "_", "i", "d">>,
              <<Part("pk", <<>>)>>)>>

\* a struct with an auto-generated key, a field without tags and an unexported
\* field that has a db tag
GadgetFields ==
    <<Field(<<"G", "a", "d", "g", "e", "t", "I", "D">>, "int64", <<"g", "a", "d", "g", "e", "t", "_", "i", "d">>,
              <<Part("pk", <<>>), Part("auto_incr", <<>>)>>),
      Field(<<"L", "a", "b", "e", "l">>, "string", <<>>,
              <<>>),
      Unexported(<<"s", "e", "r", "i", "a", "l">>, "string", <<"s", "e", "r", "i", "a", "l">>,
              <<>>),
      Field(<<"W", "e", "i", "g", "h", "t">>, "int64", <<"w", "e", "i", "g", "h", "t">>,
              <<>>)>>

StructTypes ==
    {"Author", "Book", "Category", "Widget", "CustomWidget", "Note", "Topic", "Album", "Link",
     "BookCategory", "Gadget"}

\* reflect.Type.Name()
TypeName(t) ==
    CASE t = "Author" -> <<"A", "u", "t", "h", "o", "r">>
      [] t = "Book" -> <<"B", "o", "o", "k">>
      [] t = "Category" -> <<"C", "a", "t", "e", "g", "o", "r", "y">>
      [] t = "Widget" -> <<"W", "i", "d", "g", "e", "t">>
      [] t = "CustomWidget" -> <<"C", "u", "s", "t", "o", "m", "W", "i", "d", "g", "e", "t">>
      [] t = "Note" -> <<"N", "o", "t", "e">>
      [] t = "Topic" -> <<"T", "o", "p", "i", "c">>
      [] t = "Album" -> <<"A", "l", "b", "u", "m">>
      [] t = "Link" -> <<"L", "i", "n", "k">>
      [] t = "BookCategory" -> <<"B", "o", "o", "k", "C", "a", "t", "e", "g", "o", "r", "y">>
      [] t = "Gadget" -> <<"G", "a", "d", "g", "e", "t">>

\* the declared fields of the struct type
TypeFields(t) ==
    CASE t = "Author" -> AuthorFields
      [] t = "Book" -> BookFields
      [] t = "Category" -> CategoryFields
      [] t = "Widget" -> WidgetFields
      [] t = "CustomWidget" -> CustomWidgetFields
      [] t = "Note" -> NoteFields
      [] t = "Topic" -> TopicFields
      [] t = "Album" -> AlbumFields
      [] t = "Link" -> LinkFields
      [] t = "BookCategory" -> BookCategoryFields
      [] t = "Gadget" -> GadgetFields

\* a reflect.Type: a struct type, a pointer (to a pointer ...) to one, or the nil Type
StructType(t) == [Kind |-> "struct", Name |-> t, ptrs |-> 0]
PtrTo(ty) == [ty EXCEPT !.Kind = "ptr", !.ptrs = @ + 1]
NilType == [Kind |-> "nil", Name |-> "", ptrs |-> 0]

\* derefType: t.Kind() on the nil Type is a nil dereference
derefType(ty) ==
    IF ty.Kind = "nil" THEN [ty |-> ty, panicked |-> TRUE]
    ELSE [ty |-> StructType(ty.Name), panicked |-> FALSE]

\* exportedFieldIndexes: index paths of the exported fields, those of embedded
\* structs in place of the embedded field
RECURSIVE FieldIndexesFrom(_, _)
FieldIndexesFrom(fields, i) ==
    IF i > Len(fields) THEN <<>>
    ELSE LET f == fields[i]
             inner == FieldIndexesFrom(f.Inner, 1)
             here == IF f.PkgPath # "" THEN <<>>
                     ELSE IF f.Anonymous /\ f.Kind = "struct"
                          THEN [k \in DOMAIN inner |-> <<i>> \o inner[k]]
                          ELSE << <<i>> >>
         IN  here \o FieldIndexesFrom(fields, i + 1)

exportedFieldIndexes(t) == FieldIndexesFrom(TypeFields(t), 1)

\* reflect.Type.FieldByIndex
RECURSIVE FieldByIndexIn(_, _)
FieldByIndexIn(fields, idx) ==
    IF Len(idx) = 1 THEN fields[idx[1]]
    ELSE FieldByIndexIn(fields[idx[1]].Inner, Tail(idx))

FieldByIndex(t, idx) == FieldByIndexIn(TypeFields(t), idx)

\* structTagToValues: key -> value, the last part with a key setting its value
structTagToValues(st) ==
    [k \in {st[i].k : i \in DOMAIN st} |->
        st[CHOOSE i \in DOMAIN st : st[i].k = k /\ \A j \in DOMAIN st : st[j].k = k => j <= i].v]

\* len(tagv[k]) > 0 and tagv.Get(k)
TagHas(tagv, k) == k \in DOMAIN tagv
TagGet(tagv, k) == IF k \in DOMAIN tagv THEN tagv[k] ELSE <<>>

----------------------------------------------------------------------------
(* Meta: SetTableInfo, the lookups, ParseTypeNamed, ReplaceSQLNames.        *)
(* The registry tableInfoMap is a function from struct type to descriptor; *)
(* a descriptor is a TableInfo whose names are character sequences.        *)

NewMeta == <<>>

ErrJoinNameMissing == "join_name not specified for relation"
ErrOtherIDRequired == "sql_other_id_field tag is required for relation, unable to guess its value"
ErrNoPrimaryKey == "no primary key fields found for type"
ErrIndexOutOfRange == "runtime error: index out of range"

\* var ti TableInfo
ZeroTableInfo == TableInfo(<<>>, <<>>, <<>>, FALSE, <<>>, NoRelations)

SetSQLName(ti, sqlName) == [ti EXCEPT !.sqlName = sqlName]

SetName(ti, name) ==
    LET named == [ti EXCEPT !.name = name]
    IN  IF ti.sqlName = <<>> THEN SetSQLName(named, name) ELSE named

SetGoType(ti, t) ==
    IF ti.name = <<>> THEN SetName(ti, camelToSnake(TypeName(t))) ELSE ti

\* a faulty variant: the map is made anew on every addition
AddRelationToNewMap(ti, relation) ==
    [ti EXCEPT !.RelationMap = (relation.Name :> relation)]

\* TableInfo.AddRelation
AddRelation(ti, relation) ==
    [ti EXCEPT !.RelationMap = (relation.Name :> relation) @@ @]

\* Meta.typeForName: a registered type whose descriptor has the name, else the nil Type
typeForName(m, name) ==
    IF \E t \in DOMAIN m : m[t].name = name
    THEN StructType(CHOOSE t \in DOMAIN m : m[t].name = name)
    ELSE NilType

\* the outcome of a lookup: the descriptor, or nil, or a panic
Found(ti) == [ti |-> ti, isNil |-> FALSE, panicked |-> FALSE]
NotFound == [ti |-> ZeroTableInfo, isNil |-> TRUE, panicked |-> FALSE]
LookupPanic == [ti |-> ZeroTableInfo, isNil |-> TRUE, panicked |-> TRUE]

\* Meta.ForType: m.tableInfoMap[derefType(t)]
MetaForType(m, ty) ==
    LET d == derefType(ty)
    IN  IF d.panicked THEN LookupPanic
        ELSE IF d.ty.Name \in DOMAIN m THEN Found(m[d.ty.Name])
        ELSE NotFound

\* Meta.For: the value i is represented by its type, reflect.TypeOf(i)
MetaFor(m, ty) == MetaForType(m, derefType(ty).ty)

\* Meta.ForName
MetaForName(m, name) == MetaForType(m, typeForName(m, name))

\* the outcome of an operation on the registry: the registry it leaves, the error
\* it returns ("" is nil), whether it panicked
MetaResult(m, err, panicked) == [meta |-> m, err |-> err, panicked |-> panicked]

\* a faulty variant: the entry that held the logical name is kept
SetTableInfoKeepName(m, ty, ti) ==
    LET d == derefType(ty)
    IN  IF d.panicked THEN MetaResult(m, "", TRUE)
        ELSE MetaResult((d.ty.Name :> ti) @@ m, "", FALSE)

\* Meta.SetTableInfo: delete the entry of the type holding ti's name, then assign
SetTableInfo(m, ty, ti) ==
    LET old == typeForName(m, ti.name)
        deleted == [t \in DOMAIN m \ {old.Name} |-> m[t]]
        d == derefType(ty)
    IN  IF d.panicked THEN MetaResult(deleted, "", TRUE)
        ELSE MetaResult((d.ty.Name :> ti) @@ deleted, "", FALSE)

\* the state of the walk over the fields: the descriptor so far, or the return
\* (err) or panic that ended it
Walking(ti) == [ti |-> ti, err |-> "", panicked |-> FALSE]
WalkError(ti, err) == [ti |-> ti, err |-> err, panicked |-> FALSE]
WalkPanic(ti, msg) == [ti |-> ti, err |-> msg, panicked |-> TRUE]
Ended(w) == w.err # "" \/ w.panicked

IDSuffix == <<"_", "i", "d">>

\* relation name defaults to snake of Go field name unless specified
RelationNameOf(f, tagv) ==
    IF TagGet(tagv, "relation_name") = <<>> THEN camelToSnake(f.Name)
    ELSE TagGet(tagv, "relation_name")

BelongsToOf(ti, f, tagv) ==
    AddRelation(ti, Rel("BelongsTo", RelationNameOf(f, tagv), f.Name, <<>>,
                        IF TagGet(tagv, "sql_id_field") = <<>>
                        THEN camelToSnake(f.Name) \o IDSuffix
                        ELSE TagGet(tagv, "sql_id_field"),
                        <<>>))

\* a faulty variant: the default is derived from the field's name, not the entity's
HasManyOrOneOfField(ti, f, tagv, kind) ==
    AddRelation(ti, Rel(kind, RelationNameOf(f, tagv), f.Name, <<>>, <<>>,
                        IF TagGet(tagv, "sql_other_id_field") = <<>>
                        THEN camelToSnake(f.Name) \o IDSuffix
                        ELSE TagGet(tagv, "sql_other_id_field")))

\* the has_many and has_one blocks
HasManyOrOneOf(ti, f, tagv, kind) ==
    AddRelation(ti, Rel(kind, RelationNameOf(f, tagv), f.Name, <<>>, <<>>,
                        IF TagGet(tagv, "sql_other_id_field") = <<>>
                        THEN ti.name \o IDSuffix
                        ELSE TagGet(tagv, "sql_other_id_field")))

\* a faulty variant: the guess keeps the whole join name
GuessOtherIDWholeJoin(joinName, name) == joinName \o IDSuffix

\* we try to guess this based on the join name
GuessOtherID(joinName, name) == TrimUnderscores(RemoveFirst(joinName, name)) \o IDSuffix

\* ti.SQLPKFields()[0]
DefaultIDField(ti) == ti.sqlPKFields[1]

\* the belongs_to_many and belongs_to_many_ids blocks
ManyToManyOf(ti, f, tagv, kind) ==
    LET joinName == TagGet(tagv, "join_name")
        idOpt == TagGet(tagv, "sql_id_field")
        otherOpt == TagGet(tagv, "sql_other_id_field")
    IN  IF joinName = <<>> THEN WalkError(ti, ErrJoinNameMissing)
        ELSE IF idOpt = <<>> /\ Len(ti.sqlPKFields) = 0 THEN WalkPanic(ti, ErrIndexOutOfRange)
        ELSE IF otherOpt = <<>> /\ RemoveFirst(joinName, ti.name) = joinName
             THEN WalkError(ti, ErrOtherIDRequired)
        ELSE Walking(AddRelation(ti,
                 Rel(kind, RelationNameOf(f, tagv), f.Name, joinName,
                     IF idOpt = <<>> THEN DefaultIDField(ti) ELSE idOpt,
                     IF otherOpt = <<>> THEN GuessOtherID(joinName, ti.name) ELSE otherOpt)))

\* the relation blocks of the loop body, in the order of the code; each passes the
\* descriptor on, a many-to-many block may end the walk
BelongsToStep(ti, f, tagv) ==
    IF TagHas(tagv, "belongs_to") THEN BelongsToOf(ti, f, tagv) ELSE ti

HasManyStep(ti, f, tagv) ==
    IF TagHas(tagv, "has_many") THEN HasManyOrOneOf(ti, f, tagv, "HasMany") ELSE ti

HasOneStep(ti, f, tagv) ==
    IF TagHas(tagv, "has_one") THEN HasManyOrOneOf(ti, f, tagv, "HasOne") ELSE ti

ManyToManyStep(w, f, tagv, key, kind) ==
    IF Ended(w) \/ ~TagHas(tagv, key) THEN w ELSE ManyToManyOf(w.ti, f, tagv, kind)

\* past this point, skip fields not tagged with db; check for primary key; check for
\* version
StorageStep(w, f, tagv) ==
    IF Ended(w) \/ f.db = <<>> \/ f.db = <<"-">> THEN w
    ELSE IF TagHas(tagv, "pk")
         THEN Walking([w.ti EXCEPT !.sqlPKFields = Append(@, f.db),
                                   !.pkAutoIncr = @ \/ TagHas(tagv, "auto_incr")])
    ELSE IF TagHas(tagv, "version") THEN Walking([w.ti EXCEPT !.sqlVersionField = f.db])
    ELSE w

ParseFieldTagged(ti, f, tagv) ==
    StorageStep(
        ManyToManyStep(
            ManyToManyStep(
                Walking(HasOneStep(HasManyStep(BelongsToStep(ti, f, tagv), f, tagv), f, tagv)),
                f, tagv, "belongs_to_many", "BelongsToMany"),
            f, tagv, "belongs_to_many_ids", "BelongsToManyIDs"),
        f, tagv)

\* the body of the loop over the exported fields, for one field
ParseField(ti, f) == ParseFieldTagged(ti, f, structTagToValues(f.tmeta))

RECURSIVE ParseFields(_, _, _, _)
ParseFields(w, t, idxs, i) ==
    IF Ended(w) \/ i > Len(idxs) THEN w
    ELSE ParseFields(ParseField(w.ti, FieldByIndex(t, idxs[i])), t, idxs, i + 1)

\* if len(ti.sqlPKFields) < 1
CheckKeyFields(w) ==
    IF Ended(w) THEN w
    ELSE IF Len(w.ti.sqlPKFields) < 1 THEN WalkError(w.ti, ErrNoPrimaryKey)
    ELSE w

\* ParseTypeNamed up to the registration: the descriptor, or the error or panic
ParseDescriptor(t, name) ==
    CheckKeyFields(ParseFields(Walking(SetGoType(SetName(ZeroTableInfo, name), t)),
                               t, exportedFieldIndexes(t), 1))

\* a faulty variant: the descriptor is registered even when the walk ended in an error
RegisterAlways(m, t, w) ==
    IF w.panicked THEN MetaResult(m, w.err, TRUE)
    ELSE MetaResult(SetTableInfo(m, StructType(t), w.ti).meta, w.err, FALSE)

\* the end of ParseTypeNamed: return the error, or m.SetTableInfo(t, &ti)
RegisterParsed(m, t, w) ==
    IF Ended(w) THEN MetaResult(m, w.err, w.panicked)
    ELSE SetTableInfo(m, StructType(t), w.ti)

ParseStruct(m, t, name) == RegisterParsed(m, t, ParseDescriptor(t, name))

\* Meta.ParseTypeNamed
ParseTypeNamed(m, ty, name) == ParseStruct(m, derefType(ty).ty.Name, name)

\* Meta.ParseType and Meta.Parse (the value is represented by its type)
ParseType(m, ty) == ParseTypeNamed(m, ty, camelToSnake(TypeName(derefType(ty).ty.Name)))
Parse(m, ty) == ParseType(m, derefType(ty).ty)

\* a namer is a function that prefixes the name, represented by the prefix:
\* func(name string) string { return "test_" + name }
CallNamer(namer, n) == namer \o n

\* a faulty variant: the namer is applied to the logical name as well
ReplaceAllNames(m, namer) ==
    [t \in DOMAIN m |->
        [m[t] EXCEPT !.sqlName = CallNamer(namer, @), !.name = CallNamer(namer, @)]]

\* Meta.ReplaceSQLNames
ReplaceSQLNames(m, namer) ==
    [t \in DOMAIN m |-> [m[t] EXCEPT !.sqlName = CallNamer(namer, @)]]

----------------------------------------------------------------------------
(* The registry as a state machine: parses, direct assignment, renaming     *)

MaxRenames == 1      \* ReplaceSQLNames calls in one run

\* the types registered over a run: two that share a logical name when CustomWidget
\* is parsed as "widget", one with many-to-many relations, three whose parse fails
RegistryTypes == {"Widget", "CustomWidget", "Book", "Note", "Topic", "Album"}

\* names given to ParseTypeNamed: the name of another type's descriptor, and ""
\* (the name is then derived from the type)
ExplicitNames == {<<"w", "i", "d", "g", "e", "t">>, <<>>}

\* descriptors built by hand for SetTableInfo
WidgetTable(sqlName) ==
    TableInfo(<<"w", "i", "d", "g", "e", "t">>, sqlName,
              << <<"w", "i", "d", "g", "e", "t", "_", "i", "d">> >>, FALSE, <<>>, NoRelations)
HandMade ==
    {WidgetTable(<<"w", "i", "d", "g", "e", "t">>),
     WidgetTable(<<"d", "e", "m", "o", "a", "p", "p", "_", "w", "i", "d", "g", "e", "t">>)}

\* m.ReplaceSQLNames(func(name string) string { return "test_" + name }), and a
\* namer that leaves the name as it is
Namers == {<<"t", "e", "s", "t", "_">>, <<>>}

Record_(op, t, name, r) ==
    [op |-> op, t |-> t, name |-> name, err |-> r.err, panicked |-> r.panicked, isNil |-> FALSE]

Apply(op, t, name, r) ==
    /\ mprev' = meta
    /\ meta' = r.meta
    /\ mop' = Record_(op, t, name, r)

\* err := meta.Parse(T{}) or meta.Parse(&T{})
DoParse(t, byPtr) ==
    /\ Apply("Parse", t, <<>>,
             Parse(meta, IF byPtr THEN PtrTo(StructType(t)) ELSE StructType(t)))
    /\ UNCHANGED renames

\* err := meta.ParseTypeNamed(reflect.TypeOf(T{}), name)
DoParseTypeNamed(t, name) ==
    /\ Apply("ParseTypeNamed", t, name, ParseTypeNamed(meta, StructType(t), name))
    /\ UNCHANGED renames

\* meta.SetTableInfo(reflect.TypeOf(T{}), ti)
DoSetTableInfo(t, ti) ==
    /\ Apply("SetTableInfo", t, ti.name, SetTableInfo(meta, StructType(t), ti))
    /\ UNCHANGED renames

\* meta.ReplaceSQLNames(namer)
DoReplaceSQLNames(namer) ==
    /\ renames < MaxRenames
    /\ Apply("ReplaceSQLNames", "", namer,
             MetaResult(ReplaceSQLNames(meta, namer), "", FALSE))
    /\ renames' = renames + 1

\* names looked up: of descriptors that get registered, and one that never is
LookupNames ==
    {<<"w", "i", "d", "g", "e", "t">>, <<"b", "o", "o", "k">>, <<"g", "a", "d", "g", "e", "t">>}

Looked(op, t, name, l) ==
    /\ mop' = [op |-> op, t |-> t, name |-> name, err |-> IF l.panicked THEN NilDeref ELSE "",
               panicked |-> l.panicked, isNil |-> l.isNil]
    /\ mprev' = meta
    /\ UNCHANGED <<meta, renames>>

\* ti := meta.For(T{}) or meta.For(&T{})
DoFor(t, byPtr) ==
    Looked("For", t, <<>>, MetaFor(meta, IF byPtr THEN PtrTo(StructType(t)) ELSE StructType(t)))

\* ti := meta.ForType(reflect.TypeOf(T{}))
DoForType(t) == Looked("ForType", t, <<>>, MetaForType(meta, StructType(t)))

\* ti := meta.ForName(name)
DoForName(name) == Looked("ForName", "", name, MetaForName(meta, name))

InitMeta ==
    /\ join = {}
    /\ dialect = "sqlite3"
    /\ InitCallers
    /\ InitNoUpdates
    /\ InitNoRegistry
    /\ InitNoCalls
    /\ InitOthers

NextMeta ==
    \/ \E t \in RegistryTypes, byPtr \in BOOLEAN :
          DoParse(t, byPtr) /\ UNCHANGED <<joinVars, updVars, bldVars, otherVars>>
    \/ \E t \in RegistryTypes, name \in ExplicitNames :
          DoParseTypeNamed(t, name) /\ UNCHANGED <<joinVars, updVars, bldVars, otherVars>>
    \/ \E t \in {"Widget", "CustomWidget"}, ti \in HandMade :
          DoSetTableInfo(t, ti) /\ UNCHANGED <<joinVars, updVars, bldVars, otherVars>>
    \/ \E namer \in Namers : DoReplaceSQLNames(namer) /\ UNCHANGED <<joinVars, updVars, bldVars, otherVars>>
    \/ \E t \in RegistryTypes, byPtr \in BOOLEAN : DoFor(t, byPtr) /\ UNCHANGED <<joinVars, updVars, bldVars, otherVars>>
    \/ \E t \in RegistryTypes : DoForType(t) /\ UNCHANGED <<joinVars, updVars, bldVars, otherVars>>
    \/ \E name \in LookupNames : DoForName(name) /\ UNCHANGED <<joinVars, updVars, bldVars, otherVars>>

SpecMeta == InitMeta /\ [][NextMeta]_vars

----------------------------------------------------------------------------
(* Parsing one declaration: every struct type, under its own name or a given *)
(* one, into a registry that holds nothing or one descriptor.               *)

\* names given to ParseTypeNamed
GivenNames ==
    ExplicitNames \cup {<<"b", "o", "o", "k">>, <<"t", "o", "m", "e">>}

\* the registry before the parse: new, or after one SetTableInfo or one Parse
SeedRegistries ==
    {NewMeta, Parse(NewMeta, StructType("Book")).meta}
        \cup {SetTableInfo(NewMeta, StructType("Widget"), ti).meta : ti \in HandMade}

InitParse ==
    /\ join = {}
    /\ dialect = "sqlite3"
    /\ InitCallers
    /\ InitNoUpdates
    /\ meta \in SeedRegistries
    /\ mprev = meta
    /\ mop = NoOp
    /\ renames = 0
    /\ InitNoCalls
    /\ InitOthers

NextParse ==
    \/ \E t \in StructTypes, byPtr \in BOOLEAN :
          mop = NoOp /\ DoParse(t, byPtr) /\ UNCHANGED <<joinVars, updVars, bldVars, otherVars>>
    \/ \E t \in StructTypes, name \in GivenNames :
          mop = NoOp /\ DoParseTypeNamed(t, name) /\ UNCHANGED <<joinVars, updVars, bldVars, otherVars>>

SpecParse == InitParse /\ [][NextParse]_vars

----------------------------------------------------------------------------
(* The registry: the properties *)

IsParse == mop.op \in {"Parse", "ParseTypeNamed"}
ConfigErrors == {ErrNoPrimaryKey, ErrJoinNameMissing, ErrOtherIDRequired}

\* C11 (a failed parse registers nothing): when Parse / ParseTypeNamed returns a
\* configuration error, the registry is exactly as it was before the call: nothing
\* added, nothing replaced, nothing removed.
C11_FailedParse ==
    (IsParse /\ ~mop.panicked /\ mop.err \in ConfigErrors) => meta = mprev

\* a parse of an already registered type failed, and each of the three errors occurs
C11_Witness ==
    /\ IsParse /\ ~mop.panicked /\ mop.err = ErrOtherIDRequired
    /\ mop.t \in DOMAIN mprev
    /\ meta = mprev
    /\ \A e \in ConfigErrors : \E t \in RegistryTypes, n \in ExplicitNames :
          LET r == ParseTypeNamed(meta, StructType(t), n)
          IN  ~r.panicked /\ r.err = e /\ r.meta = meta


Registered == ~mop.panicked /\ mop.err = "" /\ (IsParse \/ mop.op = "SetTableInfo")

\* the descriptor the last operation registered
RegisteredDescriptors ==
    IF IsParse THEN {ParseDescriptor(mop.t, mop.name).ti}
    ELSE {ti \in HandMade : ti.name = mop.name}

\* C12 (registry replacement and name uniqueness): no two registered descriptors
\* share a logical name; directly after registering descriptor d (name n) for type T,
\* ForType(T) and ForName(n) both return d, any other type that held n no longer has a
\* descriptor, and every other entry is unchanged.
C12_Replacement ==
    /\ \A t1, t2 \in DOMAIN meta : meta[t1].name = meta[t2].name => t1 = t2
    /\ Registered =>
          \E d \in RegisteredDescriptors :
              /\ MetaForType(meta, StructType(mop.t)) = Found(d)
              /\ MetaForName(meta, d.name) = Found(d)
              /\ DOMAIN meta \subseteq DOMAIN mprev \cup {mop.t}
              /\ \A t \in DOMAIN mprev \ {mop.t} :
                    IF mprev[t].name = d.name THEN t \notin DOMAIN meta
                    ELSE t \in DOMAIN meta /\ meta[t] = mprev[t]

\* ParseTypeNamed(CustomWidget, "widget") has just overridden Widget, next to Book
C12_Witness ==
    /\ Registered
    /\ mop.op = "ParseTypeNamed" /\ mop.t = "CustomWidget"
    /\ "Widget" \in DOMAIN mprev /\ "Widget" \notin DOMAIN meta
    /\ mprev["Widget"].name = meta["CustomWidget"].name
    /\ "Book" \in DOMAIN mprev /\ "Book" \in DOMAIN meta


\* C13 (lookup of an absent entry returns none): in every registry state, ForName of
\* a logical name no registered descriptor has, and ForType / For of a type that is
\* not registered, return nil and do not abort the caller.
C13_AbsentLookup ==
    /\ (mop.op \in {"For", "ForType"} /\ mop.t \notin DOMAIN meta) =>
          (~mop.panicked /\ mop.isNil)
    /\ (mop.op = "ForName" /\ \A t \in DOMAIN meta : meta[t].name # mop.name) =>
          (~mop.panicked /\ mop.isNil)

\* the join names the relations of the registry refer to
JoinNamesOf(m) ==
    UNION {{m[t].RelationMap[r].JoinName : r \in DOMAIN m[t].RelationMap} : t \in DOMAIN m}

\* C18 (frame of bulk renaming): ReplaceSQLNames(f) sets the storage name of every
\* registered descriptor to f(its previous storage name), f applied once, and leaves
\* the rest as it was: the registered types, the logical names, key lists,
\* auto-generated flags, version fields and relation descriptors; every name, join
\* names included, resolves to the same type as before.
C18_RenameFrame ==
    mop.op = "ReplaceSQLNames" =>
        /\ DOMAIN meta = DOMAIN mprev
        /\ \A t \in DOMAIN meta :
              /\ meta[t].sqlName = CallNamer(mop.name, mprev[t].sqlName)
              /\ meta[t].name = mprev[t].name
              /\ meta[t].sqlPKFields = mprev[t].sqlPKFields
              /\ meta[t].pkAutoIncr = mprev[t].pkAutoIncr
              /\ meta[t].sqlVersionField = mprev[t].sqlVersionField
              /\ meta[t].RelationMap = mprev[t].RelationMap
        /\ \A n \in LookupNames \cup JoinNamesOf(mprev) :
              typeForName(meta, n) = typeForName(mprev, n)

\* book and widget are registered and have been renamed to test_book and test_widget
C18_Witness ==
    /\ mop.op = "ReplaceSQLNames" /\ mop.name = <<"t", "e", "s", "t", "_">>
    /\ {"Book", "Widget"} \subseteq DOMAIN meta
    /\ meta["Book"].sqlName = <<"t", "e", "s", "t", "_", "b", "o", "o", "k">>
    /\ meta["Book"].name = <<"b", "o", "o", "k">>
    /\ DOMAIN meta["Book"].RelationMap # {}
    /\ typeForName(meta, <<"b", "o", "o", "k">>) = typeForName(mprev, <<"b", "o", "o", "k">>)

----------------------------------------------------------------------------
(* The Builder's methods called one after the other, on registered and on   *)
(* unregistered record types, with relation names of every kind             *)

ErrTargetNotRegistered == "is not registered"
ErrRelationNotSupported == "is not of a suppported type"

\* the struct type of the relation's Go field, through pointer and slice
GoFieldTarget(goType, field) ==
    CASE field = "Author" -> "Author"
      [] field = "Publisher" -> "Publisher"
      [] field = "BookList" -> "Book"
      [] field = "CategoryList" -> "Category"
      [] field = "CategoryInfo" -> "CategoryInfo"
      [] field = "Category" -> "Category"
      [] OTHER -> ""

\* SELECT <fields of the target> FROM <target table> WHERE <col> = ?
SelectTarget(m, target, col, arg) ==
    Ret(Stmt("select", "SELECT", ForType(m, target).sqlName, DBFields(target),
             <<Cond(col, "=", <<arg>>)>>, <<>>), "")

\* a faulty variant: the join condition is on the own-id column of the join table
SelectJoinedOnOwnID(m, ti, o, r) ==
    LET target == GoFieldTarget(o.goType, r.GoValueField)
    IN  IF ~HasName(m, r.JoinName) \/ ~HasType(m, target) THEN Panic(NilDeref)
        ELSE Ret(Stmt("select", "SELECT JOIN", ForName(m, r.JoinName).sqlName, DBFields(target),
                      <<Cond(r.SQLIDField, "=", <<PKValues(ti, o)[1]>>)>>,
                      <<ForType(m, target).sqlName, r.SQLIDField,
                        ForType(m, target).sqlPKFields[1]>>), "")

\* the BelongsToMany case: the join table joined with the target table
SelectJoined(m, ti, o, r) ==
    LET target == GoFieldTarget(o.goType, r.GoValueField)
    IN  IF ~HasName(m, r.JoinName) \/ ~HasType(m, target) THEN Panic(NilDeref)
        ELSE Ret(Stmt("select", "SELECT JOIN", ForName(m, r.JoinName).sqlName, DBFields(target),
                      <<Cond(r.SQLIDField, "=", <<PKValues(ti, o)[1]>>)>>,
                      <<ForType(m, target).sqlName, r.SQLOtherIDField,
                        ForType(m, target).sqlPKFields[1]>>), "")

\* a faulty variant: HasMany and HasOne compare with the last key value of the record
SelectRelationOfLastKey(m, ti, o, r, relationName) ==
    LET target == GoFieldTarget(o.goType, r.GoValueField)
    IN  CASE r.kind = "BelongsTo" ->
                IF ~HasType(m, target) THEN Ret(NoStmt, ErrTargetNotRegistered)
                ELSE SelectTarget(m, target, ForType(m, target).sqlPKFields[1],
                                  sqlFieldValue(o, r.SQLIDField))
          [] r.kind \in {"HasMany", "HasOne"} ->
                IF ~HasType(m, target) THEN Ret(NoStmt, ErrTargetNotRegistered)
                ELSE SelectTarget(m, target, r.SQLOtherIDField,
                                  PKValues(ti, o)[Len(ti.sqlPKFields)])
          [] r.kind = "BelongsToMany" -> SelectJoined(m, ti, o, r)
          [] r.kind = "BelongsToManyIDs" -> SelectRelationIDs(m, o, relationName)
          [] OTHER -> Ret(NoStmt, ErrRelationNotSupported)

\* the switch of SelectRelationPtr on the relation's type
SelectRelationOf(m, ti, o, r, relationName) ==
    LET target == GoFieldTarget(o.goType, r.GoValueField)
    IN  CASE r.kind = "BelongsTo" ->
                IF ~HasType(m, target) THEN Ret(NoStmt, ErrTargetNotRegistered)
                ELSE SelectTarget(m, target, ForType(m, target).sqlPKFields[1],
                                  sqlFieldValue(o, r.SQLIDField))
          [] r.kind \in {"HasMany", "HasOne"} ->
                IF ~HasType(m, target) THEN Ret(NoStmt, ErrTargetNotRegistered)
                ELSE SelectTarget(m, target, r.SQLOtherIDField, PKValues(ti, o)[1])
          [] r.kind = "BelongsToMany" -> SelectJoined(m, ti, o, r)
          [] r.kind = "BelongsToManyIDs" -> SelectRelationIDs(m, o, relationName)
          [] OTHER -> Ret(NoStmt, ErrRelationNotSupported)

\* fieldPtr = ti.RelationTargetPtr(o, relationName): the field of a record that is not
\* passed as a pointer is not addressable
WithFieldPtr(ret, byPtr) ==
    IF ret.err = "" /\ ~ret.panicked /\ ~byPtr THEN Panic(ErrUnaddressable) ELSE ret

\* a faulty variant: the relation is looked up before the descriptor is checked
SelectRelationPtrRelationFirst(m, o, byPtr, relationName) ==
    IF ~HasType(m, o.goType) \/ ~HasRelation(ForType(m, o.goType), relationName)
    THEN Ret(NoStmt, ErrRelationNotFound)
    ELSE WithFieldPtr(SelectRelationOf(m, ForType(m, o.goType), o,
                                       RelationNamed(ForType(m, o.goType), relationName),
                                       relationName), byPtr)

\* Builder.SelectRelationPtr
SelectRelationPtr(m, o, byPtr, relationName) ==
    IF ~HasType(m, o.goType) THEN Ret(NoStmt, ErrTypeNotRegistered)
    ELSE IF ~HasRelation(ForType(m, o.goType), relationName)
    THEN Ret(NoStmt, ErrRelationNotFound)
    ELSE WithFieldPtr(SelectRelationOf(m, ForType(m, o.goType), o,
                                       RelationNamed(ForType(m, o.goType), relationName),
                                       relationName), byPtr)

\* Builder.Select
Select(m, o) ==
    IF ~HasType(m, o.goType) THEN Ret(NoRowStmt, ErrTypeNotRegistered)
    ELSE Ret(RowStmt("select", ForType(m, o.goType).sqlName, NoValues, <<>>), "")

\* a struct type doSetup does not parse
Magazine == "Magazine"

\* the registry of doSetup, and one in which only three of the types are registered
BuilderMetas == {TestMeta, [t \in {"Author", "Book", "Category"} |-> TestMeta[t]]}

\* records passed to Select, SelectByID, Insert, UpdateByID and DeleteByID
CrudRecords ==
    {EntityRecord([goType |-> t, verKind |-> IF t = "Publisher" THEN "int64" ELSE ""],
                  "id_0001", "first name", 0) : t \in {"Author", "Publisher", Magazine}}

\* records passed to the relation methods: every mapped column holds the id
RelationRecord(goType, id, ids) ==
    [f \in {"goType", "CategoryIDList"} \cup Range(DBFields(goType)) |->
        CASE f = "goType" -> goType
          [] f = "CategoryIDList" -> ids
          [] OTHER -> id]

RelationLists ==
    {NilSlice, Slice(FALSE, <<>>), Slice(FALSE, <<"category_0001">>),
     Slice(FALSE, <<"category_0002", "category_0001">>)}

RelationRecords ==
    {RelationRecord(t, "id_0001", ids) :
        t \in {"Author", "Book", "Category", Magazine}, ids \in RelationLists}

\* relation names: one of each kind, and one that no type has
RelationNames ==
    {"author", "book_list", "category_info", "category_list", "category_id_list", "tag_id_list"}

Called(op, m, o, byPtr, rel, ret) ==
    /\ call' = [op |-> op, m |-> m, o |-> o, byPtr |-> byPtr, rel |-> rel]
    /\ out' = ret

CallSelect(m, o) == Called("Select", m, o, TRUE, "", Select(m, o))

CallSelectByID(m, o) ==
    Called("SelectByID", m, o, TRUE, "", SelectByID(m, o, <<Iface("string", "id_0001")>>))

CallInsert(m, o) == Called("Insert", m, o, TRUE, "", Insert(m, o))

CallUpdateByID(m, o, byPtr) == Called("UpdateByID", m, o, byPtr, "", UpdateByID(m, o, byPtr))

CallDeleteByID(m, o) ==
    Called("DeleteByID", m, o, TRUE, "", DeleteByID(m, o, <<Iface("string", "id_0001")>>))

CallSelectRelationPtr(m, o, byPtr, rel) ==
    Called("SelectRelationPtr", m, o, byPtr, rel, SelectRelationPtr(m, o, byPtr, rel))

CallDeleteRelationNotIn(m, o, rel) ==
    Called("DeleteRelationNotIn", m, o, TRUE, rel, DeleteRelationNotIn(m, o, rel))

CallInsertRelationIgnore(m, o, rel) ==
    Called("InsertRelationIgnore", m, o, TRUE, rel, InsertRelationIgnore(m, dialect, o, rel))

InitBuilder ==
    /\ join = {}
    /\ dialect \in Dialects
    /\ InitCallers
    /\ InitNoUpdates
    /\ InitNoRegistry
    /\ InitNoCalls
    /\ InitOthers

NextBuilder ==
    \/ \E m \in BuilderMetas, o \in CrudRecords :
          CallSelect(m, o) /\ UNCHANGED <<joinVars, updVars, regVars, otherVars>>
    \/ \E m \in BuilderMetas, o \in CrudRecords :
          CallSelectByID(m, o) /\ UNCHANGED <<joinVars, updVars, regVars, otherVars>>
    \/ \E m \in BuilderMetas, o \in CrudRecords :
          CallInsert(m, o) /\ UNCHANGED <<joinVars, updVars, regVars, otherVars>>
    \/ \E m \in BuilderMetas, o \in CrudRecords, byPtr \in BOOLEAN :
          CallUpdateByID(m, o, byPtr) /\ UNCHANGED <<joinVars, updVars, regVars, otherVars>>
    \/ \E m \in BuilderMetas, o \in CrudRecords :
          CallDeleteByID(m, o) /\ UNCHANGED <<joinVars, updVars, regVars, otherVars>>
    \/ \E m \in BuilderMetas, o \in RelationRecords, byPtr \in BOOLEAN, rel \in RelationNames :
          CallSelectRelationPtr(m, o, byPtr, rel) /\ UNCHANGED <<joinVars, updVars, regVars, otherVars>>
    \/ \E m \in BuilderMetas, o \in RelationRecords, rel \in RelationNames :
          CallDeleteRelationNotIn(m, o, rel) /\ UNCHANGED <<joinVars, updVars, regVars, otherVars>>
    \/ \E m \in BuilderMetas, o \in RelationRecords, rel \in RelationNames :
          CallInsertRelationIgnore(m, o, rel) /\ UNCHANGED <<joinVars, updVars, regVars, otherVars>>

SpecBuilder == InitBuilder /\ [][NextBuilder]_vars

----------------------------------------------------------------------------
(* Parsing: the properties *)

Parsed == IsParse /\ ~mop.panicked /\ mop.err = ""

RelationKeys == {"belongs_to", "has_many", "has_one", "belongs_to_many", "belongs_to_many_ids"}

\* the accessible fields of the type that carry a relation annotation, by index path
RelationFields(t) ==
    {idx \in Range(exportedFieldIndexes(t)) :
        DOMAIN structTagToValues(FieldByIndex(t, idx).tmeta) \cap RelationKeys # {}}

RelationNameAt(t, idx) ==
    RelationNameOf(FieldByIndex(t, idx), structTagToValues(FieldByIndex(t, idx).tmeta))

DistinctRelationNames(t) ==
    \A i, j \in RelationFields(t) : RelationNameAt(t, i) = RelationNameAt(t, j) => i = j

RelationCount(l) == Cardinality(DOMAIN l.ti.RelationMap)

\* C14 (relation count), as stated: after a successful parse the descriptor returned
\* by ForType and by ForName has as many relations as the record has fields carrying
\* a relation annotation.
C14_RelationCount ==
    Parsed =>
        /\ RelationCount(MetaForType(meta, StructType(mop.t)))
              = Cardinality(RelationFields(mop.t))
        /\ RelationCount(MetaForName(meta, meta[mop.t].name))
              = Cardinality(RelationFields(mop.t))

\* C14 (relation count), amended: the same, for record types whose relation-annotated
\* fields have pairwise distinct relation names; fields with the same relation name
\* share one entry of the map.
C14_RelationCountDistinct ==
    (Parsed /\ DistinctRelationNames(mop.t)) =>
        /\ RelationCount(MetaForType(meta, StructType(mop.t)))
              = Cardinality(RelationFields(mop.t))
        /\ RelationCount(MetaForName(meta, meta[mop.t].name))
              = Cardinality(RelationFields(mop.t))

\* Book has been parsed: four annotated fields, four relations
C14_Witness ==
    /\ Parsed /\ mop.t = "Book" /\ DistinctRelationNames("Book")
    /\ Cardinality(RelationFields("Book")) = 4
    /\ RelationCount(MetaForType(meta, StructType("Book"))) = 4

\* the name the entity is parsed under: the name given to ParseTypeNamed, or the
\* snake-case of the type name when none (or the empty name) is given
LogicalName ==
    IF mop.op = "ParseTypeNamed" /\ mop.name # <<>> THEN mop.name
    ELSE camelToSnake(TypeName(mop.t))

TagAt(t, idx) == structTagToValues(FieldByIndex(t, idx).tmeta)

\* the relation registered under the relation name of the field
RelationAt(t, idx) == meta[t].RelationMap[RelationNameAt(t, idx)]

HasFields(t) ==
    {idx \in RelationFields(t) : DOMAIN TagAt(t, idx) \cap {"has_many", "has_one"} # {}}

\* C15 (default other-id field of has_many / has_one): after a successful parse, a
\* has_many or has_one field without sql_other_id_field is registered with
\* SQLOtherIDField = logical name of the entity + "_id", the logical name being the
\* name given to ParseTypeNamed or the snake-case of the type name; a given
\* sql_other_id_field is used unchanged.
C15_DefaultOtherID ==
    Parsed =>
        /\ meta[mop.t].name = LogicalName
        /\ \A idx \in HasFields(mop.t) :
              /\ RelationAt(mop.t, idx).kind \in {"HasMany", "HasOne"}
              /\ RelationAt(mop.t, idx).SQLOtherIDField =
                    IF TagGet(TagAt(mop.t, idx), "sql_other_id_field") = <<>>
                    THEN LogicalName \o <<"_", "i", "d">>
                    ELSE TagGet(TagAt(mop.t, idx), "sql_other_id_field")

\* Author has been parsed under its own name: book_list refers back by author_id
C15_Witness ==
    /\ Parsed /\ mop.op = "Parse" /\ mop.t = "Author"
    /\ HasFields("Author") # {}
    /\ \A idx \in HasFields("Author") :
          /\ TagGet(TagAt("Author", idx), "sql_other_id_field") = <<>>
          /\ RelationAt("Author", idx).SQLOtherIDField
                = <<"a", "u", "t", "h", "o", "r", "_", "i", "d">>

\* the belongs_to_many and belongs_to_many_ids fields that name a join
ManyFields(t) ==
    {idx \in RelationFields(t) :
        /\ DOMAIN TagAt(t, idx) \cap {"belongs_to_many", "belongs_to_many_ids"} # {}
        /\ TagGet(TagAt(t, idx), "join_name") # <<>>}

\* those of them whose other-id field has to be guessed
GuessedFields(t) ==
    {idx \in ManyFields(t) : TagGet(TagAt(t, idx), "sql_other_id_field") = <<>>}

\* sub occurs in s (the empty string occurs in every string)
Occurs(s, sub) ==
    \E i \in 1..(Len(s) - Len(sub) + 1) : SubSeq(s, i, i + Len(sub) - 1) = sub

\* s without the first occurrence of sub, underscores trimmed, "_id" appended
StrippedID(s, sub) == TrimUnderscores(RemoveFirst(s, sub)) \o <<"_", "i", "d">>

JoinNameAt(t, idx) == TagGet(TagAt(t, idx), "join_name")

\* C16 (guessing the other-id field from the join name): for a
\* belongs_to_many or belongs_to_many_ids field without sql_other_id_field, if the
\* join name contains the logical name the parse registers the join name without the
\* first occurrence of the name, underscores trimmed, plus "_id"; if it does not, the
\* parse fails with the error demanding an explicit value.
C16_GuessOtherID ==
    (IsParse /\ ~mop.panicked) =>
        \A idx \in GuessedFields(mop.t) :
            IF Occurs(JoinNameAt(mop.t, idx), LogicalName)
            THEN /\ mop.err = ""
                 /\ RelationAt(mop.t, idx).SQLOtherIDField
                       = StrippedID(JoinNameAt(mop.t, idx), LogicalName)
            ELSE mop.err = ErrOtherIDRequired

\* Book has been parsed as book: the join book_category gives category_id
C16_Witness ==
    /\ Parsed /\ mop.t = "Book" /\ LogicalName = <<"b", "o", "o", "k">>
    /\ GuessedFields("Book") # {}
    /\ \A idx \in GuessedFields("Book") :
          /\ JoinNameAt("Book", idx)
                = <<"b", "o", "o", "k", "_", "c", "a", "t", "e", "g", "o", "r", "y">>
          /\ RelationAt("Book", idx).SQLOtherIDField
                = <<"c", "a", "t", "e", "g", "o", "r", "y", "_", "i", "d">>

\* the storage names of the pk-marked fields, in declaration order
KeyFieldsOf(t) ==
    LET idxs == exportedFieldIndexes(t)
        keyed == SelectSeq(idxs, LAMBDA idx :
                    /\ FieldByIndex(t, idx).db \notin {<<>>, <<"-">>}
                    /\ TagHas(TagAt(t, idx), "pk"))
    IN  [i \in DOMAIN keyed |-> FieldByIndex(t, keyed[i]).db]

\* C17 (default own-side join key): for a belongs_to_many or belongs_to_many_ids
\* field without sql_id_field the parse does not abort, and the registered SQLIDField
\* is the first key field of the entity, wherever the key field is declared.
C17_DefaultIDField ==
    IsParse =>
        \A idx \in ManyFields(mop.t) :
            TagGet(TagAt(mop.t, idx), "sql_id_field") = <<>> =>
                /\ ~mop.panicked
                /\ mop.err = "" =>
                      RelationAt(mop.t, idx).SQLIDField = KeyFieldsOf(mop.t)[1]

----------------------------------------------------------------------------
(* The Builder: the properties *)

RelationOps == {"SelectRelationPtr", "DeleteRelationNotIn", "InsertRelationIgnore"}

\* the record's type has a descriptor in the registry of the call
TypeRegistered == call.o.goType \in DOMAIN call.m

\* the relation name is in the relation map of the record's descriptor
RelationKnown == TypeRegistered /\ call.rel \in DOMAIN call.m[call.o.goType].RelationMap

\* the call returned no statement (a nil statement pointer)
NoStatement == out.stmt.kind = "nil"

\* C19 (distinct errors, no partial statement): every Builder method returns
\* ErrTypeNotRegistered and no statement for a record whose type has no descriptor,
\* whatever the relation name; the three relation methods return another error,
\* relation not found, and no statement when the type is registered and the name is
\* not in its relation map; no call returns a statement together with an error.
C19_DistinctErrors ==
    call.op # "" =>
        /\ ~TypeRegistered =>
              ~out.panicked /\ out.err = ErrTypeNotRegistered /\ NoStatement
        /\ (call.op \in RelationOps /\ TypeRegistered /\ ~RelationKnown) =>
              /\ ~out.panicked /\ out.err = ErrRelationNotFound /\ NoStatement
              /\ out.err # ErrTypeNotRegistered
        /\ (~out.panicked /\ out.err # "") => NoStatement

\* SelectRelationPtr on a record of an unregistered type, with a relation name that
\* no type has: the answer is ErrTypeNotRegistered
C19_Witness ==
    /\ call.op = "SelectRelationPtr" /\ call.o.goType = Magazine /\ call.rel = "tag_id_list"
    /\ ~TypeRegistered
    /\ out.err = ErrTypeNotRegistered /\ NoStatement

\* C20 (unsupported relation kind): DeleteRelationNotIn and InsertRelationIgnore with
\* the name of a BelongsTo, HasMany, HasOne or BelongsToMany relation return the
\* unsupported-relation error and no statement, whatever the record holds; a statement
\* is returned for a BelongsToManyIDs relation only.
C20_UnsupportedKind ==
    (call.op \in {"DeleteRelationNotIn", "InsertRelationIgnore"} /\ RelationKnown) =>
        /\ call.m[call.o.goType].RelationMap[call.rel].kind
                \in {"BelongsTo", "HasMany", "HasOne", "BelongsToMany"} =>
              ~out.panicked /\ out.err = ErrUnsupportedRelation /\ NoStatement
        /\ ~NoStatement =>
              call.m[call.o.goType].RelationMap[call.rel].kind = "BelongsToManyIDs"

\* InsertRelationIgnore with the has_one relation of Category, the record's list empty
C20_Witness ==
    /\ call.op = "InsertRelationIgnore" /\ call.o.goType = "Category"
    /\ call.rel = "category_info" /\ RelationKnown
    /\ call.m["Category"].RelationMap["category_info"].kind = "HasOne"
    /\ SliceLen(call.o.CategoryIDList) = 0
    /\ out.err = ErrUnsupportedRelation /\ NoStatement

\* the relation the call names
CalledRelation == call.m[call.o.goType].RelationMap[call.rel]

\* the relation's target entity type or its join entity has no descriptor
TargetMissing ==
    /\ CalledRelation.kind \in {"BelongsTo", "HasMany", "HasOne", "BelongsToMany"}
    /\ GoFieldTarget(call.o.goType, CalledRelation.GoValueField) \notin DOMAIN call.m

JoinMissing ==
    /\ CalledRelation.kind \in {"BelongsToMany", "BelongsToManyIDs"}
    /\ \A t \in DOMAIN call.m : call.m[t].name # CalledRelation.JoinName

\* C30 (unregistered target or join entity): when the owning type and the relation
\* are registered and the relation's target entity or join entity has no descriptor,
\* SelectRelationPtr, DeleteRelationNotIn and InsertRelationIgnore return an error
\* and no statement, and do not abort.
C30_MissingEntityIsError ==
    (call.op \in RelationOps /\ RelationKnown /\ (TargetMissing \/ JoinMissing)) =>
        ~out.panicked /\ out.err # "" /\ NoStatement

\* InsertRelationIgnore has been called for the id relation of a registered Book,
\* the join entity registered, the desired list not empty
InsertCalled ==
    /\ call.op = "InsertRelationIgnore" /\ RelationKnown
    /\ CalledRelation.kind = "BelongsToManyIDs" /\ ~JoinMissing
    /\ SliceLen(call.o.CategoryIDList) >= 1

DialectIdiom ==
    CASE dialect = "sqlite3" -> "INSERT OR IGNORE INTO"
      [] dialect = "mysql" -> "INSERT IGNORE INTO"
      [] dialect = "postgres" -> "INSERT INTO ... ON CONFLICT DO NOTHING"
      [] OTHER -> ""

\* C24 (shape of the insert-or-ignore statement): for a desired list of n >= 1 ids
\* InsertRelationIgnore returns one statement on the storage name of the join table,
\* columns (sql_id_field, sql_other_id_field), n value groups and 2n arguments: the
\* record's first key value followed by the i-th id, for each i in list order, in the
\* idiom of the session's dialect; for another dialect an error and no statement.
C24_InsertShape ==
    InsertCalled =>
        IF DialectIdiom = "" THEN ~out.panicked /\ out.err # "" /\ NoStatement
        ELSE /\ ~out.panicked /\ out.err = ""
             /\ out.stmt.kind = "insert"
             /\ out.stmt.idiom = DialectIdiom
             /\ \E t \in DOMAIN call.m :
                   /\ call.m[t].name = CalledRelation.JoinName
                   /\ out.stmt.table = call.m[t].sqlName
             /\ out.stmt.cols = <<CalledRelation.SQLIDField, CalledRelation.SQLOtherIDField>>
             /\ Len(out.stmt.args) = 2 * SliceLen(call.o.CategoryIDList)
             /\ \A i \in 1..SliceLen(call.o.CategoryIDList) :
                   /\ out.stmt.args[2 * i - 1] = call.o.book_id
                   /\ out.stmt.args[2 * i] = call.o.CategoryIDList.elems[i]

\* a Book with two desired ids, under PostgreSQL
C24_Witness ==
    /\ InsertCalled /\ dialect = "postgres"
    /\ SliceLen(call.o.CategoryIDList) = 2
    /\ out.stmt.table = "test_book_category"
    /\ out.stmt.args = <<call.o.book_id, "category_0002", call.o.book_id, "category_0001">>

\* the columns a statement names
StatementColumns(stmt) == Range(stmt.cols) \cup {stmt.where[i].col : i \in DOMAIN stmt.where}

\* the statements the caller's record and relation name give
BuiltDelete == DeleteRelationNotIn(TestMeta, rec[1], relName[1])
BuiltInsert == InsertRelationIgnore(TestMeta, dialect, rec[1], relName[1])

\* C28 (reconciliation touches only the record's own links): executing the delete and
\* the insert statement built for a record with first key value x leaves every join
\* row whose own-id column is not x as it is, present or absent; the statements name
\* no column of the join table other than sql_id_field and sql_other_id_field.
C28_OwnLinksOnly ==
    /\ [](IsGood(1) =>
            /\ StatementColumns(BuiltDelete.stmt) \subseteq {"book_id", "category_id"}
            /\ StatementColumns(BuiltInsert.stmt) \subseteq {"book_id", "category_id"})
    /\ [][\A r \in JoinRows : r.book_id # rec[1].book_id => (r \in join' <=> r \in join)]_vars

\* a reconciliation has changed the record's links while another record has links
C28_Witness ==
    /\ pc[1] = "done" /\ issued[1] = 2
    /\ LinksOf(join, rec[1].book_id) # LinksOf(base[1], rec[1].book_id)
    /\ \E r \in join : r.book_id # rec[1].book_id


----------------------------------------------------------------------------
(* TableInfo: the accessors of a descriptor, and the column lists the      *)
(* Builder takes from them. A record of struct type t is a function from   *)
(* the index paths of the exported fields of t to the values of the fields. *)

\* the value of the field at an index path in the g-th record, and the nil interface
FieldValue(idx, g) == [at |-> idx, gen |-> g]
NilInterface == [at |-> <<>>, gen |-> 0]

\* a faulty variant: the key fields are listed whatever withPK says
RECURSIVE SQLFieldsFrom(_, _, _, _, _)
SQLFieldsFrom(t, ti, withPK, idxes, i) ==
    IF i > Len(idxes) THEN <<>>
    ELSE IF FieldByIndex(t, idxes[i]).db = <<>> \/ FieldByIndex(t, idxes[i]).db = <<"-">>
         THEN SQLFieldsFrom(t, ti, withPK, idxes, i + 1)
    ELSE IF ~IsSQLPKField(ti, FieldByIndex(t, idxes[i]).db) \/ withPK
         THEN <<FieldByIndex(t, idxes[i]).db>> \o SQLFieldsFrom(t, ti, withPK, idxes, i + 1)
    ELSE SQLFieldsFrom(t, ti, withPK, idxes, i + 1)

SQLFieldsWithKeys(t, ti, withPK) == SQLFieldsFrom(t, ti, TRUE, exportedFieldIndexes(t), 1)

\* TableInfo.SQLFields; t is ti.goType
SQLFields(t, ti, withPK) == SQLFieldsFrom(t, ti, withPK, exportedFieldIndexes(t), 1)

AndSeparator == <<" ", "A", "N", "D", " ">>
EqualsPlaceholder == <<" ", "=", " ", "?">>

\* strings.TrimPrefix
TrimPrefix(s, prefix) ==
    IF Len(s) >= Len(prefix) /\ SubSeq(s, 1, Len(prefix)) = prefix
    THEN SubSeq(s, Len(prefix) + 1, Len(s))
    ELSE s

\* the loop of SQLPKWhere: fmt.Fprintf(&buf, " AND %s = ?", fn) for each key field
RECURSIVE WriteKeyClauses(_, _)
WriteKeyClauses(fields, i) ==
    IF i > Len(fields) THEN <<>>
    ELSE AndSeparator \o fields[i] \o EqualsPlaceholder \o WriteKeyClauses(fields, i + 1)

\* TableInfo.SQLPKWhere
SQLPKWhere(ti) == TrimPrefix(WriteKeyClauses(ti.sqlPKFields, 1), AndSeparator)

\* the loop of sqlFieldIndex: the index path of the first exported field whose
\* storage name is sqlFieldName; the empty path is the nil slice
RECURSIVE ScanFieldIndexes(_, _, _, _)
ScanFieldIndexes(t, sqlFieldName, idxes, i) ==
    IF i > Len(idxes) THEN <<>>
    ELSE IF FieldByIndex(t, idxes[i]).db = <<>> \/ FieldByIndex(t, idxes[i]).db = <<"-">>
         THEN ScanFieldIndexes(t, sqlFieldName, idxes, i + 1)
    ELSE IF FieldByIndex(t, idxes[i]).db = sqlFieldName THEN idxes[i]
    ELSE ScanFieldIndexes(t, sqlFieldName, idxes, i + 1)

\* sqlFieldIndex, as a function of its arguments
sqlFieldIndex(t, sqlFieldName) == ScanFieldIndexes(t, sqlFieldName, exportedFieldIndexes(t), 1)

\* sqlFieldValue of a record o of struct type t
sqlFieldValueOf(t, o, sqlFieldName) ==
    IF sqlFieldIndex(t, sqlFieldName) = <<>> THEN NilInterface
    ELSE o[sqlFieldIndex(t, sqlFieldName)]

\* a faulty variant: the values are collected in the order of the declaration of
\* the fields
PKValuesDeclared(t, ti, o) ==
    [i \in DOMAIN SQLFields(t, ti, TRUE) \cap DOMAIN ti.sqlPKFields |->
        sqlFieldValueOf(t, o, SelectSeq(SQLFields(t, ti, TRUE), LAMBDA n : IsSQLPKField(ti, n))[i])]

\* TableInfo.PKValues
PKValuesOf(t, ti, o) ==
    [i \in DOMAIN ti.sqlPKFields |-> sqlFieldValueOf(t, o, ti.sqlPKFields[i])]

\* TableInfo.SQLValueMap: ret[sfdb] = v.FieldByIndex(idx).Interface() for each
\* mapped field, a later field of the same storage name replacing an earlier one
RECURSIVE ValueMapFrom(_, _, _, _, _, _, _)
ValueMapFrom(ret, t, ti, o, includePks, idxes, i) ==
    IF i > Len(idxes) THEN ret
    ELSE IF FieldByIndex(t, idxes[i]).db = <<>> \/ FieldByIndex(t, idxes[i]).db = <<"-">>
         THEN ValueMapFrom(ret, t, ti, o, includePks, idxes, i + 1)
    ELSE IF ~IsSQLPKField(ti, FieldByIndex(t, idxes[i]).db) \/ includePks
         THEN ValueMapFrom((FieldByIndex(t, idxes[i]).db :> o[idxes[i]]) @@ ret,
                           t, ti, o, includePks, idxes, i + 1)
    ELSE ValueMapFrom(ret, t, ti, o, includePks, idxes, i + 1)

SQLValueMapOf(t, ti, o, includePks) ==
    ValueMapFrom(<<>>, t, ti, o, includePks, exportedFieldIndexes(t), 1)

\* the column lists of the Builder: Select and SelectByID, Select(ti.SQLFields(true)...)
SelectColumns(t, ti) == SQLFields(t, ti, TRUE)
\* Insert: Columns(ti.SQLFields(!ti.PKAutoIncr())...)
InsertColumns(t, ti) == SQLFields(t, ti, ~ti.pkAutoIncr)
\* UpdateByID: SetMap(vmap) with vmap := ti.SQLValueMap(o, false), for a
\* descriptor without a version field
UpdateSetMap(t, ti, o) == SQLValueMapOf(t, ti, o, FALSE)

\* the struct types that parse, registered by Parse in this order
ParsedTypes ==
    <<"Author", "Book", "Category", "Widget", "CustomWidget", "Link", "BookCategory", "Gadget">>

RECURSIVE ParseAll(_, _, _)
ParseAll(m, types, i) ==
    IF i > Len(types) THEN m
    ELSE ParseAll(Parse(m, StructType(types[i])).meta, types, i + 1)

\* a descriptor of BookCategory made by hand, its key fields in the other order
CategoryBookTable ==
    TableInfo(<<"b", "o", "o", "k", "_", "c", "a", "t", "e", "g", "o", "r", "y">>, <<"b", "o", "o", "k", "_", "c", "a", "t", "e", "g", "o", "r", "y">>,
              <<<<"c", "a", "t", "e", "g", "o", "r", "y", "_", "i", "d">>, <<"b", "o", "o", "k", "_", "i", "d">>>>, FALSE, <<>>, NoRelations)

AccessorRegistries ==
    {ParseAll(NewMeta, ParsedTypes, 1),
     SetTableInfo(ParseAll(NewMeta, ParsedTypes, 1), StructType("BookCategory"),
                  CategoryBookTable).meta}

\* records of struct type t
Generations == 1..2
RecordsOf(t) ==
    {[idx \in Range(exportedFieldIndexes(t)) |-> FieldValue(idx, g)] : g \in Generations}

Access(op, t, withPK, o) ==
    [NoAccess EXCEPT !.op = op, !.t = t, !.ti = meta[t], !.withPK = withPK, !.o = o]

DoSQLFields(t, withPK) ==
    /\ acc' = [Access("SQLFields", t, withPK, <<>>) EXCEPT
                  !.names = SQLFields(t, meta[t], withPK)]
    /\ UNCHANGED meta

DoSQLPKWhere(t) ==
    /\ acc' = [Access("SQLPKWhere", t, FALSE, <<>>) EXCEPT !.where = SQLPKWhere(meta[t])]
    /\ UNCHANGED meta

DoPKValues(t, o) ==
    /\ acc' = [Access("PKValues", t, FALSE, o) EXCEPT !.values = PKValuesOf(t, meta[t], o)]
    /\ UNCHANGED meta

DoSQLValueMap(t, o, includePks) ==
    /\ acc' = [Access("SQLValueMap", t, includePks, o) EXCEPT
                  !.vmap = SQLValueMapOf(t, meta[t], o, includePks)]
    /\ UNCHANGED meta

DoSelect(t) ==
    /\ acc' = [Access("Select", t, FALSE, <<>>) EXCEPT !.names = SelectColumns(t, meta[t])]
    /\ UNCHANGED meta

\* SelectByID(o) without ids: the ids are ti.PKValues(o)
DoSelectByID(t, o) ==
    /\ acc' = [Access("SelectByID", t, FALSE, o) EXCEPT
                  !.names = SelectColumns(t, meta[t]),
                  !.where = SQLPKWhere(meta[t]),
                  !.values = PKValuesOf(t, meta[t], o)]
    /\ UNCHANGED meta

DoInsert(t, o) ==
    /\ acc' = [Access("Insert", t, FALSE, o) EXCEPT !.names = InsertColumns(t, meta[t])]
    /\ UNCHANGED meta

DoUpdateByID(t, o) ==
    /\ meta[t].sqlVersionField = <<>>
    /\ acc' = [Access("UpdateByID", t, FALSE, o) EXCEPT
                  !.vmap = UpdateSetMap(t, meta[t], o),
                  !.where = SQLPKWhere(meta[t]),
                  !.values = PKValuesOf(t, meta[t], o)]
    /\ UNCHANGED meta

InitAccess ==
    /\ join = {}
    /\ dialect = "sqlite3"
    /\ InitCallers
    /\ InitNoUpdates
    /\ meta \in AccessorRegistries
    /\ mprev = meta
    /\ mop = NoOp
    /\ renames = 0
    /\ InitNoCalls
    /\ InitOthers

NextAccess ==
    \/ \E t \in DOMAIN meta, withPK \in BOOLEAN :
          DoSQLFields(t, withPK) /\ UNCHANGED <<joinVars, updVars, mprev, mop, renames, bldVars, raceVars, relVars, ptrVars, idxVars>>
    \/ \E t \in DOMAIN meta :
          DoSQLPKWhere(t) /\ UNCHANGED <<joinVars, updVars, mprev, mop, renames, bldVars, raceVars, relVars, ptrVars, idxVars>>
    \/ \E t \in DOMAIN meta : \E o \in RecordsOf(t) :
          DoPKValues(t, o) /\ UNCHANGED <<joinVars, updVars, mprev, mop, renames, bldVars, raceVars, relVars, ptrVars, idxVars>>
    \/ \E t \in DOMAIN meta, includePks \in BOOLEAN : \E o \in RecordsOf(t) :
          DoSQLValueMap(t, o, includePks)
              /\ UNCHANGED <<joinVars, updVars, mprev, mop, renames, bldVars, raceVars, relVars, ptrVars, idxVars>>
    \/ \E t \in DOMAIN meta :
          DoSelect(t) /\ UNCHANGED <<joinVars, updVars, mprev, mop, renames, bldVars, raceVars, relVars, ptrVars, idxVars>>
    \/ \E t \in DOMAIN meta : \E o \in RecordsOf(t) :
          DoSelectByID(t, o) /\ UNCHANGED <<joinVars, updVars, mprev, mop, renames, bldVars, raceVars, relVars, ptrVars, idxVars>>
    \/ \E t \in DOMAIN meta : \E o \in RecordsOf(t) :
          DoInsert(t, o) /\ UNCHANGED <<joinVars, updVars, mprev, mop, renames, bldVars, raceVars, relVars, ptrVars, idxVars>>
    \/ \E t \in DOMAIN meta : \E o \in RecordsOf(t) :
          DoUpdateByID(t, o) /\ UNCHANGED <<joinVars, updVars, mprev, mop, renames, bldVars, raceVars, relVars, ptrVars, idxVars>>

SpecAccess == InitAccess /\ [][NextAccess]_vars


----------------------------------------------------------------------------
(* The accessors of a descriptor: the properties *)

HasStorage(sfdb) == sfdb # <<>> /\ sfdb # <<"-">>

\* the storage names of the exported fields that have one, in the order of declaration
StorageNames(t) ==
    [k \in DOMAIN SelectSeq(exportedFieldIndexes(t),
                            LAMBDA idx : HasStorage(FieldByIndex(t, idx).db)) |->
        FieldByIndex(t, SelectSeq(exportedFieldIndexes(t),
                                  LAMBDA idx : HasStorage(FieldByIndex(t, idx).db))[k]).db]

WithoutKeys(ti, names) == SelectSeq(names, LAMBDA n : n \notin Range(ti.sqlPKFields))

\* C22 (column lists per operation): SQLFields(true) is the storage names of all
\* exported fields with a storage mapping, in declaration order, promoted fields
\* included; SQLFields(false) is that list without the key fields; Select and
\* SelectByID use the list with keys, Insert the list with keys exactly when the key
\* is not auto-generated; the SET map of UpdateByID never contains a key field; a
\* field without storage mapping appears in none of them.
C22_ColumnLists ==
    /\ acc.op = "SQLFields" =>
          acc.names = IF acc.withPK THEN StorageNames(acc.t)
                      ELSE WithoutKeys(acc.ti, StorageNames(acc.t))
    /\ acc.op \in {"Select", "SelectByID"} => acc.names = StorageNames(acc.t)
    /\ acc.op = "Insert" =>
          acc.names = IF acc.ti.pkAutoIncr THEN WithoutKeys(acc.ti, StorageNames(acc.t))
                      ELSE StorageNames(acc.t)
    /\ acc.op = "UpdateByID" =>
          DOMAIN acc.vmap = Range(WithoutKeys(acc.ti, StorageNames(acc.t)))
    /\ acc.op # "" =>
          /\ \A n \in Range(acc.names) \cup DOMAIN acc.vmap : HasStorage(n)
          /\ Range(acc.names) \cup DOMAIN acc.vmap \subseteq Range(StorageNames(acc.t))

\* an insert of a record whose key is auto-generated, of a struct that has an
\* exported field without storage mapping and a promoted or unexported field
C22_Witness ==
    /\ acc.op = "Insert" /\ acc.ti.pkAutoIncr
    /\ Len(acc.names) = Len(StorageNames(acc.t)) - 1
    /\ \E idx \in Range(exportedFieldIndexes(acc.t)) : ~HasStorage(FieldByIndex(acc.t, idx).db)
    /\ \E i \in DOMAIN TypeFields(acc.t) : TypeFields(acc.t)[i].PkgPath # ""

KeyClause(k) == k \o EqualsPlaceholder

\* the index path of the exported field whose storage name is k
KeyPath(t, k) ==
    CHOOSE idx \in Range(exportedFieldIndexes(t)) : FieldByIndex(t, idx).db = k

\* C23 (key predicate and values are aligned): for a descriptor with key fields
\* k1..kn (n >= 1), SQLPKWhere is "k1 = ? AND ... AND kn = ?" with exactly n
\* placeholders in key order and no leading or trailing AND, and PKValues(record)
\* returns n values, the i-th being the record's value of ki.
C23_KeyAligned ==
    /\ (acc.op \in {"SQLPKWhere", "SelectByID", "UpdateByID"} /\ Len(acc.ti.sqlPKFields) >= 1) =>
          /\ acc.where = Join([i \in DOMAIN acc.ti.sqlPKFields |->
                                  KeyClause(acc.ti.sqlPKFields[i])], AndSeparator)
          /\ Cardinality({i \in DOMAIN acc.where : acc.where[i] = "?"}) = Len(acc.ti.sqlPKFields)
          /\ SubSeq(acc.where, 1, Len(acc.ti.sqlPKFields[1])) = acc.ti.sqlPKFields[1]
          /\ acc.where[Len(acc.where)] = "?"
    /\ (acc.op \in {"PKValues", "SelectByID", "UpdateByID"} /\ Len(acc.ti.sqlPKFields) >= 1) =>
          /\ Len(acc.values) = Len(acc.ti.sqlPKFields)
          /\ \A i \in DOMAIN acc.ti.sqlPKFields :
                acc.values[i] = acc.o[KeyPath(acc.t, acc.ti.sqlPKFields[i])]

\* a select by id of a record with two key fields, the second declared field being
\* the first key
C23_Witness ==
    /\ acc.op = "SelectByID"
    /\ Len(acc.ti.sqlPKFields) = 2
    /\ KeyPath(acc.t, acc.ti.sqlPKFields[1]) = <<2>>
    /\ acc.values = <<acc.o[<<2>>], acc.o[<<1>>]>>
    /\ acc.o[<<1>>] # acc.o[<<2>>]


----------------------------------------------------------------------------
(* Two callers reconciling the same record without a transaction: each     *)
(* statement is executed atomically by the database, a caller's delete     *)
(* before its own insert, the statements of the two callers in any order.  *)

InitRace ==
    /\ join \in {{OtherLink} \cup links : links \in SUBSET LinksOf(JoinRows, TheBook)}
    /\ dialect \in Dialects
    /\ InitCallers
    /\ InitNoUpdates
    /\ InitNoRegistry
    /\ InitNoCalls
    /\ InitOthers

NextRace ==
    \/ \E c \in Callers, ids \in Slices :
          Prepare(c, GoodTarget, TheBook, ids)
              /\ UNCHANGED <<updVars, regVars, bldVars, otherVars>>
    \/ \E c \in Callers : SyncDelete(c) /\ UNCHANGED <<updVars, regVars, bldVars, otherVars>>
    \/ \E c \in Callers :
          SyncInsert(c) /\ lastIns' = c
              /\ UNCHANGED <<updVars, regVars, bldVars, accVars, relVars, ptrVars, idxVars>>

SpecRace == InitRace /\ [][NextRace]_vars

BothDone == \A c \in Callers : pc[c] = "done"

\* C29 (bounds of a reconciliation that is not atomic): two callers reconcile the
\* same record to D1 and D2, their delete and insert steps run one at a time in any
\* order that keeps each caller's delete before its own insert; after the four steps
\* the record's links are a subset of D1 union D2 and a superset of the desired set
\* of the caller whose insert ran last.
C29_RaceBounds ==
    BothDone =>
        /\ LinksOf(join, TheBook) \subseteq Desired(1) \cup Desired(2)
        /\ Desired(lastIns) \subseteq LinksOf(join, TheBook)

\* both callers are done, the links are the union of two desired sets of which
\* neither contains the other, and a link that was there at the start is gone
C29_Witness ==
    /\ BothDone /\ lastIns = 2
    /\ LinksOf(join, TheBook) = Desired(1) \cup Desired(2)
    /\ ~(Desired(1) \subseteq Desired(2)) /\ ~(Desired(2) \subseteq Desired(1))
    /\ \E r \in LinksOf(base[1], TheBook) : r \notin join


----------------------------------------------------------------------------
(* Loading a relation: the statement SelectRelation builds is executed     *)
(* against the target table, and the join table for a BelongsToMany.       *)

AuthorIDs == {"author_0001", "author_0002"}
PenNames == {"author_0002", "Barack Obama"}

BookTable == "test_book"
CategoryTable == "test_category"
CategoryInfoTable == "test_category_info"

BookRow(b, a) ==
    [book_id |-> b, author_id |-> a, publisher_id |-> "publisher_0001", title |-> "Dreams"]
CategoryRow(c) == [category_id |-> c, name |-> "Politics"]
CategoryInfoRow(i, c) == [category_info_id |-> i, category_id |-> c, info_stuff |-> "info"]

\* the contents of the book table: each book absent, or written by one of the authors
BookTables ==
    {{BookRow(b, f[b]) : b \in S} : S \in SUBSET BookIDs, f \in [BookIDs -> AuthorIDs]}

CategoryInfoTables ==
    {{}, {CategoryInfoRow(1, "category_0001")},
     {CategoryInfoRow(1, "category_0002"), CategoryInfoRow(2, "category_0001")}}

\* the registry of doSetup, and one in which Author and Category have a second key field
CompositeKeyMeta ==
    [TestMeta EXCEPT !["Author"].sqlPKFields = <<"author_id", "nom_de_plume">>,
                     !["Category"].sqlPKFields = <<"category_id", "name">>]

LoadMetas == {TestMeta, CompositeKeyMeta}

\* the records whose relations are loaded
AuthorRecord(a, n) == [RelationRecord("Author", a, NilSlice) EXCEPT !.nom_de_plume = n]
CategoryRecord(c) == [RelationRecord("Category", c, NilSlice) EXCEPT !.name = "category_0002"]
Owners ==
    {AuthorRecord(a, n) : a \in AuthorIDs, n \in PenNames}
        \cup {CategoryRecord(c) : c \in CategoryIDs}

\* SELECT <cols> FROM <table> WHERE <col> = ?: the rows of the table that match
ExecQuery(stmt, tables) == {r \in tables[stmt.table] : Matches(r, stmt.where)}

\* SELECT <cols> FROM <join> JOIN <target> ON <join>.<c> = <target>.<k> WHERE <col> = ?:
\* one row for each pair of a matching row of the join table and a row of the
\* target table that satisfy the join condition
ExecJoin(stmt, joinRows, tables) ==
    {[link |-> j, row |-> r] :
        <<j, r>> \in {p \in {q \in joinRows : Matches(q, stmt.where)} \X tables[stmt.args[1]] :
                        p[1][stmt.args[2]] = p[2][stmt.args[3]]}}

\* b.MustSelectRelation(&o, rel).Load(...): the statement and the rows it returns
Selected(m, o, rel, ret) ==
    [op |-> "SelectRelation", m |-> m, o |-> o, rel |-> rel, ret |-> ret,
     rows |-> IF ret.err # "" \/ ret.panicked THEN {}
              ELSE IF ret.stmt.idiom = "SELECT JOIN"
                   THEN {p.row : p \in ExecJoin(ret.stmt, join, store)}
              ELSE ExecQuery(ret.stmt, store),
     links |-> IF ret.err # "" \/ ret.panicked \/ ret.stmt.idiom # "SELECT JOIN" THEN {}
               ELSE {p.link : p \in ExecJoin(ret.stmt, join, store)},
     n |-> IF ret.err # "" \/ ret.panicked THEN 0
           ELSE IF ret.stmt.idiom = "SELECT JOIN"
                THEN Cardinality(ExecJoin(ret.stmt, join, store))
           ELSE Cardinality(ExecQuery(ret.stmt, store))]

\* the relation of a record is loaded while no record is being reconciled
LoadRelation(m, o, rel) ==
    /\ pc[1] = "idle"
    /\ sel' = Selected(m, o, rel, SelectRelationPtr(m, o, TRUE, rel))
    /\ UNCHANGED store

\* the BelongsToMany relation of the record the caller has reconciled is loaded
LoadReconciled(c, rel) ==
    /\ pc[c] = "done"
    /\ sel' = Selected(TestMeta, rec[c], rel, SelectRelationPtr(TestMeta, rec[c], TRUE, rel))
    /\ UNCHANGED store

InitLoad ==
    /\ \/ /\ join \in SUBSET {JoinRow(b, c) : b \in BookIDs, c \in {"category_0001", "category_0002"}}
          /\ \E cats \in SUBSET CategoryIDs :
                store = [t \in {BookTable, CategoryTable, CategoryInfoTable} |->
                            IF t = CategoryTable THEN {CategoryRow(c) : c \in cats} ELSE {}]
       \/ /\ join = {}
          /\ \E books \in BookTables, infos \in CategoryInfoTables :
                store = [t \in {BookTable, CategoryTable, CategoryInfoTable} |->
                            CASE t = BookTable -> books
                              [] t = CategoryInfoTable -> infos
                              [] OTHER -> {}]
    /\ dialect \in Dialects
    /\ InitCallers
    /\ InitNoUpdates
    /\ InitNoRegistry
    /\ InitNoCalls
    /\ InitNoAccess /\ InitNoRace /\ InitNoHandle /\ InitNoIndex
    /\ sel = NoSelect

NextLoad ==
    \/ \E x \in BookIDs, ids \in Slices :
          sel = NoSelect /\ Prepare(1, GoodTarget, x, ids)
              /\ UNCHANGED <<updVars, regVars, bldVars, otherVars>>
    \/ SyncDelete(1) /\ UNCHANGED <<updVars, regVars, bldVars, otherVars>>
    \/ SyncInsert(1) /\ UNCHANGED <<updVars, regVars, bldVars, otherVars>>
    \/ \E m \in LoadMetas, o \in Owners, rel \in {"book_list", "category_info"} :
          LoadRelation(m, o, rel)
              /\ UNCHANGED <<joinVars, updVars, regVars, bldVars, accVars, raceVars, ptrVars, idxVars>>
    \/ \E rel \in {"category_list"} :
          LoadReconciled(1, rel)
              /\ UNCHANGED <<joinVars, updVars, regVars, bldVars, accVars, raceVars, ptrVars, idxVars>>

SpecLoad == InitLoad /\ [][NextLoad]_vars

LoadedRelation == sel.m[sel.o.goType].RelationMap[sel.rel]
Loaded(kinds) ==
    /\ sel.op = "SelectRelation"
    /\ sel.o.goType \in DOMAIN sel.m
    /\ sel.rel \in DOMAIN sel.m[sel.o.goType].RelationMap
    /\ LoadedRelation.kind \in kinds

FirstKeyValue == sel.o[sel.m[sel.o.goType].sqlPKFields[1]]
LaterKeyValues ==
    {sel.o[sel.m[sel.o.goType].sqlPKFields[i]] : i \in 2..Len(sel.m[sel.o.goType].sqlPKFields)}
LoadedTarget == GoFieldTarget(sel.o.goType, LoadedRelation.GoValueField)

\* C26 (the HasMany / HasOne predicate uses only the first key): the statement
\* selects the target entity's columns with the single predicate
\* <sql_other_id_field> = <first key value of the record>, so it returns exactly the
\* target rows whose other-id column has that value; the second and later key values
\* of an owner with a composite key are neither in the predicate nor in its arguments.
C26_FirstKeyOnly ==
    Loaded({"HasMany", "HasOne"}) =>
        /\ sel.ret.err = "" /\ ~sel.ret.panicked
        /\ sel.ret.stmt.kind = "select"
        /\ sel.ret.stmt.table = sel.m[LoadedTarget].sqlName
        /\ sel.ret.stmt.cols = DBFields(LoadedTarget)
        /\ sel.ret.stmt.where = <<Cond(LoadedRelation.SQLOtherIDField, "=", <<FirstKeyValue>>)>>
        /\ sel.ret.stmt.args = <<>>
        /\ sel.rows = {r \in store[sel.m[LoadedTarget].sqlName] :
                          r[LoadedRelation.SQLOtherIDField] = FirstKeyValue}
        /\ \A v \in LaterKeyValues \ {FirstKeyValue} :
              \A i \in DOMAIN sel.ret.stmt.where : v \notin Range(sel.ret.stmt.where[i].args)

\* the books of an author with a composite key are loaded: books of that author are
\* returned, and a book whose author_id is the author's second key value is not
C26_Witness ==
    /\ Loaded({"HasMany"})
    /\ Len(sel.m[sel.o.goType].sqlPKFields) = 2
    /\ sel.rows # {}
    /\ \E r \in store[BookTable] : r.author_id \in LaterKeyValues /\ r \notin sel.rows

\* C25 (the BelongsToMany select agrees with the reconciled links): after the id
\* relation of a record is reconciled to a desired set D, the statement built for the
\* belongs_to_many relation over the same join table selects exactly the rows of the
\* target table whose first key value is in D, one row per link, and no row that is
\* linked only to another record.
C25_SelectAgrees ==
    (Loaded({"BelongsToMany"}) /\ pc[1] = "done" /\ sel.o = rec[1]) =>
        /\ sel.ret.err = "" /\ ~sel.ret.panicked
        /\ sel.rows = {r \in store[CategoryTable] :
                          r.category_id \in Range(rec[1].CategoryIDList.elems)}
        /\ sel.n = Cardinality(sel.links)
        /\ sel.links = {l \in Desired(1) : \E r \in store[CategoryTable] :
                                              r.category_id = l.category_id}
        /\ \A l \in sel.links : l.book_id = rec[1].book_id

\* a record reconciled to two categories, one of which is not in the category table,
\* while another record is linked to a category this record is not linked to
C25_Witness ==
    /\ Loaded({"BelongsToMany"}) /\ pc[1] = "done" /\ sel.o = rec[1]
    /\ Cardinality(Desired(1)) = 2
    /\ sel.n = 1
    /\ \E l \in join : l.book_id # rec[1].book_id /\ l.category_id \notin OthersOf(join, rec[1].book_id)
                          /\ \E r \in store[CategoryTable] : r.category_id = l.category_id


----------------------------------------------------------------------------
(* RelationMap.RelationTargetPtr: the handle to the value field of a       *)
(* relation. A handle is nil, or addresses a field of the record, or        *)
(* addresses a variable of its own that holds a copy of a field's value.    *)

Handle(kind, field, val) ==
    [kind |-> kind, field |-> field, val |-> val, rel |-> "", byPtr |-> FALSE,
     panicked |-> FALSE]
NilHandle == Handle("nil", "", NilValue)
HandlePanic == [Handle("nil", "", NilValue) EXCEPT !.panicked = TRUE]

\* a faulty variant: the handle addresses a copy of the field's value
RelationTargetPtrToCopy(rm, o, byPtr, n) ==
    IF n \notin DOMAIN rm THEN NilHandle
    ELSE IF rm[n].GoValueField \notin DOMAIN o \/ ~byPtr THEN HandlePanic
    ELSE Handle("copy", rm[n].GoValueField, o[rm[n].GoValueField])

\* RelationMap.RelationTargetPtr: nil for a name that is not in the map; f.Addr()
\* panics when the record has no such field and when the record is not passed as
\* a pointer
RelationTargetPtr(rm, o, byPtr, n) ==
    IF n \notin DOMAIN rm THEN NilHandle
    ELSE IF rm[n].GoValueField \notin DOMAIN o \/ ~byPtr THEN HandlePanic
    ELSE Handle("field", rm[n].GoValueField, NilValue)

\* *handle
Deref(h, o) == IF h.kind = "field" THEN o[h.field] ELSE h.val

\* the values a relation field holds: nil, and two loaded values
LoadedValues == {NilValue, "loaded_0001", "loaded_0002"}

\* the value fields of the relations of a type
ValueFields(t) == {TestMeta[t].RelationMap[n].GoValueField : n \in DOMAIN TestMeta[t].RelationMap}

\* a record of type t, its relation fields not loaded
ZeroRecord(t) == [f \in {"goType"} \cup ValueFields(t) |-> IF f = "goType" THEN t ELSE NilValue]

\* bookT.RelationTargetPtr(&book, "author")
TakeHandle(n, byPtr) ==
    /\ hnd' = [RelationTargetPtr(TestMeta[obj.goType].RelationMap, obj, byPtr, n)
                  EXCEPT !.rel = n, !.byPtr = byPtr]
    /\ hop' = [op |-> "RelationTargetPtr", field |-> "", val |-> NilValue]
    /\ UNCHANGED obj

\* *handle = v, as Load and LoadOne do
StoreThrough(v) ==
    /\ hnd.kind \in {"field", "copy"}
    /\ obj' = IF hnd.kind = "field" THEN [obj EXCEPT ![hnd.field] = v] ELSE obj
    /\ hnd' = IF hnd.kind = "field" THEN hnd ELSE [hnd EXCEPT !.val = v]
    /\ hop' = [op |-> "store", field |-> "", val |-> v]

\* book.Author = v
AssignField(f, v) ==
    /\ f \in DOMAIN obj
    /\ obj' = [obj EXCEPT ![f] = v]
    /\ hop' = [op |-> "assign", field |-> f, val |-> v]
    /\ UNCHANGED hnd

InitHandle ==
    /\ join = {}
    /\ dialect = "sqlite3"
    /\ InitCallers
    /\ InitNoUpdates
    /\ InitNoRegistry
    /\ InitNoCalls
    /\ InitNoAccess /\ InitNoRace /\ InitNoSelect /\ InitNoIndex
    /\ obj \in {ZeroRecord(t) : t \in {"Author", "Book", "Category", "CategoryInfo"}}
    /\ hnd = NoHandle
    /\ hop = NoFieldOp

NextHandle ==
    \/ \E n \in RelationNames, byPtr \in BOOLEAN :
          TakeHandle(n, byPtr)
              /\ UNCHANGED <<joinVars, updVars, regVars, bldVars, accVars, raceVars, relVars, idxVars>>
    \/ \E v \in LoadedValues :
          StoreThrough(v)
              /\ UNCHANGED <<joinVars, updVars, regVars, bldVars, accVars, raceVars, relVars, idxVars>>
    \/ \E f \in {"Author", "Publisher", "BookList", "CategoryList", "CategoryIDList", "CategoryInfo",
                 "Category"}, v \in LoadedValues :
          AssignField(f, v)
              /\ UNCHANGED <<joinVars, updVars, regVars, bldVars, accVars, raceVars, relVars, idxVars>>

SpecHandle == InitHandle /\ [][NextHandle]_vars

HandleRelations == TestMeta[obj.goType].RelationMap
DeclaredField == HandleRelations[hnd.rel].GoValueField

\* C21 (the relation target handle): for a record passed by pointer and the name of
\* a relation of its descriptor, of any of the five kinds, RelationTargetPtr returns
\* a pointer to the record's declared value field: a value stored through the handle
\* is read from the field, a value assigned to the field is read through the handle;
\* for a name that is not in the map it returns nil.
C21_TargetHandle ==
    /\ (hnd.kind # "none" /\ hnd.byPtr /\ hnd.rel \in DOMAIN HandleRelations) =>
          /\ ~hnd.panicked
          /\ hnd.kind # "nil"
          /\ hnd.field = DeclaredField
          /\ Deref(hnd, obj) = obj[DeclaredField]
          /\ hop.op = "store" => obj[DeclaredField] = hop.val
          /\ (hop.op = "assign" /\ hop.field = DeclaredField) => Deref(hnd, obj) = hop.val
    /\ (hnd.kind # "none" /\ hnd.rel \notin DOMAIN HandleRelations) =>
          hnd.kind = "nil" /\ ~hnd.panicked

RelationKindsOf(t) == {TestMeta[t].RelationMap[n].kind : n \in DOMAIN TestMeta[t].RelationMap}

\* a value was stored through the handle of a relation and the field now holds
\* another value that was assigned to it; every kind of relation has a name to ask for
C21_Witness ==
    /\ hnd.kind = "field" /\ hnd.byPtr /\ hnd.rel = "category_id_list"
    /\ hop.op = "assign" /\ hop.field = "CategoryIDList" /\ hop.val = "loaded_0002"
    /\ Deref(hnd, obj) = "loaded_0002"
    /\ UNION {RelationKindsOf(t) : t \in {"Author", "Book", "Category"}} =
          {"BelongsTo", "HasMany", "HasOne", "BelongsToMany", "BelongsToManyIDs"}


----------------------------------------------------------------------------
(* sqlFieldIndex called by concurrent callers: the cache map and its       *)
(* sync.RWMutex, one step per statement.                                   *)

sqlFieldIndexCacheKey(t, f) == <<t, f>>

\* a faulty variant: the write lock is granted while readers hold the lock
CanLockAmongReaders(c) == wrlock = 0

\* sync.RWMutex: RLock waits while a writer holds the lock, Lock waits while a
\* writer or a reader holds it
CanRLock(c) == wrlock = 0
CanLock(c) == wrlock = 0 /\ rdlock = {}

\* a caller enters sqlFieldIndex(t, sqlFieldName)
IndexCall(c, t, name) ==
    /\ ipc[c] = "idle"
    /\ iarg' = [iarg EXCEPT ![c] = [t |-> t, name |-> name]]
    /\ iret' = [iret EXCEPT ![c] = NoIndexResult]
    /\ ipc' = [ipc EXCEPT ![c] = "rlock"]
    /\ UNCHANGED <<cache, rdlock, wrlock>>

\* sqlFieldIndexCacheMU.RLock()
IndexRLock(c) ==
    /\ ipc[c] = "rlock"
    /\ CanRLock(c)
    /\ rdlock' = rdlock \cup {c}
    /\ ipc' = [ipc EXCEPT ![c] = "read"]
    /\ UNCHANGED <<cache, wrlock, iarg, iret>>

\* ret, ok := sqlFieldIndexCache[sqlFieldIndexCacheKey{T: t, F: sqlFieldName}]
IndexRead(c) ==
    /\ ipc[c] = "read"
    /\ iret' = [iret EXCEPT ![c] =
                  IF sqlFieldIndexCacheKey(iarg[c].t, iarg[c].name) \in DOMAIN cache
                  THEN [@ EXCEPT !.ret = cache[sqlFieldIndexCacheKey(iarg[c].t, iarg[c].name)],
                                 !.ok = TRUE]
                  ELSE [@ EXCEPT !.ret = <<>>, !.ok = FALSE]]
    /\ ipc' = [ipc EXCEPT ![c] = "runlock"]
    /\ UNCHANGED <<cache, rdlock, wrlock, iarg>>

\* sqlFieldIndexCacheMU.RUnlock(); if ok { return ret }
IndexRUnlock(c) ==
    /\ ipc[c] = "runlock"
    /\ rdlock' = rdlock \ {c}
    /\ ipc' = [ipc EXCEPT ![c] = IF iret[c].ok THEN "idle" ELSE "lock"]
    /\ iret' = [iret EXCEPT ![c] =
                  IF iret[c].ok THEN [@ EXCEPT !.out = iret[c].ret, !.returned = TRUE] ELSE @]
    /\ UNCHANGED <<cache, wrlock, iarg>>

\* sqlFieldIndexCacheMU.Lock()
IndexLock(c) ==
    /\ ipc[c] = "lock"
    /\ CanLock(c)
    /\ wrlock' = c
    /\ ipc' = [ipc EXCEPT ![c] = "scan"]
    /\ UNCHANGED <<cache, rdlock, iarg, iret>>

\* the loop over exportedFieldIndexes(t)
IndexScan(c) ==
    /\ ipc[c] = "scan"
    /\ iret' = [iret EXCEPT ![c].ret = sqlFieldIndex(iarg[c].t, iarg[c].name)]
    /\ ipc' = [ipc EXCEPT ![c] = "write"]
    /\ UNCHANGED <<cache, rdlock, wrlock, iarg>>

\* sqlFieldIndexCache[sqlFieldIndexCacheKey{T: t, F: sqlFieldName}] = ret
IndexWrite(c) ==
    /\ ipc[c] = "write"
    /\ cache' = (sqlFieldIndexCacheKey(iarg[c].t, iarg[c].name) :> iret[c].ret) @@ cache
    /\ ipc' = [ipc EXCEPT ![c] = "unlock"]
    /\ UNCHANGED <<rdlock, wrlock, iarg, iret>>

\* return ret, and the deferred sqlFieldIndexCacheMU.Unlock()
IndexUnlock(c) ==
    /\ ipc[c] = "unlock"
    /\ wrlock' = 0
    /\ iret' = [iret EXCEPT ![c].out = iret[c].ret, ![c].returned = TRUE]
    /\ ipc' = [ipc EXCEPT ![c] = "idle"]
    /\ UNCHANGED <<cache, rdlock, iarg>>

\* the struct types and the storage names the callers ask for: names of fields, of a
\* promoted field, and names that no field has
IndexTypes == {"Author", "CustomWidget"}
IndexNames == {<<"a", "u", "t", "h", "o", "r", "_", "i", "d">>, <<"w", "i", "d", "g", "e", "t", "_", "i", "d">>, <<"-">>}

InitIndex ==
    /\ join = {}
    /\ dialect = "sqlite3"
    /\ InitCallers
    /\ InitNoUpdates
    /\ InitNoRegistry
    /\ InitNoCalls
    /\ InitNoAccess /\ InitNoRace /\ InitNoSelect /\ InitNoHandle
    /\ InitNoIndex

NextIndex ==
    \/ \E c \in Callers, t \in IndexTypes, name \in IndexNames :
          IndexCall(c, t, name)
              /\ UNCHANGED <<joinVars, updVars, regVars, bldVars, accVars, raceVars, relVars, ptrVars>>
    \/ \E c \in Callers :
          IndexRLock(c)
              /\ UNCHANGED <<joinVars, updVars, regVars, bldVars, accVars, raceVars, relVars, ptrVars>>
    \/ \E c \in Callers :
          IndexRead(c)
              /\ UNCHANGED <<joinVars, updVars, regVars, bldVars, accVars, raceVars, relVars, ptrVars>>
    \/ \E c \in Callers :
          IndexRUnlock(c)
              /\ UNCHANGED <<joinVars, updVars, regVars, bldVars, accVars, raceVars, relVars, ptrVars>>
    \/ \E c \in Callers :
          IndexLock(c)
              /\ UNCHANGED <<joinVars, updVars, regVars, bldVars, accVars, raceVars, relVars, ptrVars>>
    \/ \E c \in Callers :
          IndexScan(c)
              /\ UNCHANGED <<joinVars, updVars, regVars, bldVars, accVars, raceVars, relVars, ptrVars>>
    \/ \E c \in Callers :
          IndexWrite(c)
              /\ UNCHANGED <<joinVars, updVars, regVars, bldVars, accVars, raceVars, relVars, ptrVars>>
    \/ \E c \in Callers :
          IndexUnlock(c)
              /\ UNCHANGED <<joinVars, updVars, regVars, bldVars, accVars, raceVars, relVars, ptrVars>>

SpecIndex == InitIndex /\ [][NextIndex]_vars

\* the index path of the first exported field with the storage name, nil if none has it
FirstFieldNamed(t, name) ==
    IF \E idx \in Range(exportedFieldIndexes(t)) : FieldByIndex(t, idx).db = name /\ HasStorage(name)
    THEN SelectSeq(exportedFieldIndexes(t), LAMBDA idx : FieldByIndex(t, idx).db = name)[1]
    ELSE <<>>

\* C27 (the locator cache is additive and lock-protected): under any interleaving of
\* concurrent sqlFieldIndex callers, the cache map is read while the read or the
\* write lock is held and written while the write lock is held, no read or write
\* overlapping a write; the value of a key that is present never changes, also when
\* two callers miss on the same key and both store it; no entry is ever removed; a
\* name that is not a storage field gives nil.
C27_AdditiveCache ==
    /\ [](\A c \in Callers :
            /\ ipc[c] = "read" => (c \in rdlock /\ wrlock = 0)
            /\ ipc[c] = "write" => (wrlock = c /\ rdlock = {})
            /\ \A d \in Callers \ {c} : ~(ipc[c] = "write" /\ ipc[d] \in {"read", "write"})
            /\ iret[c].returned => iret[c].out = FirstFieldNamed(iarg[c].t, iarg[c].name))
    /\ [][\A k \in DOMAIN cache : k \in DOMAIN cache' /\ cache'[k] = cache[k]]_vars

\* both callers missed on the same key, which no field has, one has stored nil and
\* the other is about to store
C27_Witness ==
    /\ iarg[1] = iarg[2] /\ iarg[1].name = <<"-">>
    /\ ~iret[1].ok /\ ~iret[2].ok
    /\ iret[1].returned /\ iret[1].out = <<>>
    /\ sqlFieldIndexCacheKey(iarg[1].t, iarg[1].name) \in DOMAIN cache
    /\ ipc[2] = "write"

============================================================================
